---- MODULE Spec2Model ----
(***************************************************************************)
(* rauc-hawkbit-updater: the hawkBit DDI client state machine.             *)
(*                                                                         *)
(* Three threads share one HawkbitAction (id, state, mutex, cond):         *)
(*   - the poll thread   (hawkbit_pull_cb, process_deployment,             *)
(*                        process_cancel),                                 *)
(*   - the download worker (download_thread),                              *)
(*   - the install thread  (install_loop_thread and its callbacks          *)
(*                        hawkbit_progress / install_complete_cb).         *)
(* A stretch of code that runs without blocking between two blocking       *)
(* points (g_mutex_lock, g_thread_join, g_cond_wait) is one action; a      *)
(* request sent before a g_mutex_lock belongs to the action of that lock,  *)
(* since it touches no shared state.                                       *)
(*                                                                         *)
(* The retry loop of rest_request_retriable is modelled on its own         *)
(* (SpecRetry); inside the client state machine a REST request is one step *)
(* whose outcome is the loop's final result.                               *)
(*                                                                         *)
(* History is kept per deployment (fields n, term, odd, badid, last,       *)
(* handed, end of an artifact, handed on to the install context) and per   *)
(* tick of the poll                                                        *)
(* loop (tick, swst, crFrom, canFb), so that the poll loop can run forever *)
(* in a finite state space.                                                *)
(***************************************************************************)
EXTENDS Integers, Sequences, FiniteSets, TLC

(* ------------------------------------------------------------------------ *)
(* Bounds of the model                                                      *)
(* ------------------------------------------------------------------------ *)
MaxId == 2         \* action ids the server uses are 1..MaxId (0 is NULL)
MaxProgress == 1   \* property-change events the executor emits per install
MaxSize == 2       \* artifact sizes and free space are 0..MaxSize
ArtLen == 2        \* bytes of every artifact the server serves
MaxAccept == 2     \* deployments the server lets the client process
MaxTimeout == 2    \* timeout and connect_timeout of a config file are 0..MaxTimeout
MaxRetryWait == 3  \* retry_wait of the configurations whose timer is followed
MaxQueued == 3     \* property-change events of the install whose queue is followed

(* ------------------------------------------------------------------------ *)
(* Program constants                                                        *)
(* ------------------------------------------------------------------------ *)
ACTION_STATE_NONE == 0
ACTION_STATE_CANCELED == 1
ACTION_STATE_ERROR == 2
ACTION_STATE_SUCCESS == 3
ACTION_STATE_PROCESSING == 4
ACTION_STATE_DOWNLOADING == 5
ACTION_STATE_INSTALLING == 6
ACTION_STATE_CANCEL_REQUESTED == 7

MAX_RETRIES_ON_API_ERROR == 10
RetrySleepMs == 1000
DEFAULT_RETRY_WAIT == 300

VARIABLES
    cfg,          \* Config: resume_downloads, stream_bundle, post_update_reboot, run_once,
                  \* and the errors downloads meet in this environment
    state,        \* active_action->state
    id,           \* active_action->id (0 = NULL)
    mutex,        \* owner of active_action->mutex: "free" or "poll"
    signaled,     \* a g_cond_signal reached the waiter in process_cancel
    file,         \* bundle_download_location: [exists, data]
    pollpc,       \* position of the poll thread
    cancelLink,   \* the base response has _links.cancelAction
    res,          \* hawkbit_pull_cb's res (followed in run_once mode only)
    stop_id,      \* process_cancel's stop_id (0 = not fetched in this tick)
    pArt,         \* process_deployment's artifact
    resp,         \* history: the deployment resource process_deployment has just
                  \* read (kept until the poll thread's next step)
    dlpc,         \* position of the download worker
    dlArt,        \* the worker's artifact
    sha1sum,      \* the worker's sha1sum (0 = NULL)
    dlret,        \* the worker's return value (followed in run_once mode only)
    attempt,      \* the worker's last download attempt: [resume_from, error, slept]
    instpc,       \* position of the install thread
    ictx,         \* install_context: [art, bundle, auth_header, queue, status_result,
                  \* keep, left] and its history: the messages pushed and those
                  \* handed to the progress callback
    halted,       \* "no", "exited", "aborted", "rebooted"
    nacc,         \* deployments processed so far (bounded by MaxAccept)
    tick,         \* history: what the poll thread has done in this tick: the GET
                  \* requests sent ("base", "deployment", "cancel"), "busy" for
                  \* the already-in-progress error of process_deployment and,
                  \* in run_once mode, the steps that failed
    swst,         \* history: state the feedback switch of process_cancel read (-1 = none)
    crFrom,       \* history: state process_cancel replaced by CANCEL_REQUESTED (-1 = none)
    canFb,        \* history: cancel feedbacks sent in this tick, in order
    foreign,      \* history: a cancel for another stopId has reset a running action
    rr,           \* rest_request_retriable: [pc, method, retry_count, requests, slept,
                  \* last, res]
    boot,         \* main(): [pc, args, code] ("off" while the client is followed)
    cdata,        \* ClientData of hawkbit_start_service_sync: [on, last_run_sec,
                  \* hawkbit_interval_check_sec, sleep, gap, polled]; the timer is
                  \* followed only when on, otherwise a poll may start at any time
    io,           \* history: the network and bus calls of the last step (if followed), each with
                  \* the owner of the action mutex during the call
    acc           \* history: the reads and writes of active_action->state and
                  \* active_action->id in the last step (if followed), each with
                  \* the owner of the action mutex during the access

vars == <<cfg, state, id, mutex, signaled, file, pollpc, cancelLink, res, stop_id,
          pArt, resp, dlpc, dlArt, sha1sum, dlret, attempt, instpc, ictx, halted, nacc,
          tick, swst, crFrom, canFb, foreign, rr, boot, cdata, io, acc>>

actionVars == <<state, id>>
pollVars == <<pollpc, cancelLink, res, stop_id, pArt, resp>>
dlVars == <<dlpc, dlArt, sha1sum, dlret, attempt>>
instVars == <<instpc, ictx>>
tickVars == <<tick, swst, crFrom, canFb>>

Ids == 1..MaxId
MaintenanceWindows == {"null", "available", "unavailable", "other"}

(* ------------------------------------------------------------------------ *)
(* Files and checksums                                                      *)
(* ------------------------------------------------------------------------ *)
NoFile == [exists |-> FALSE, data |-> <<>>]

\* The bytes the download URL of deployment i serves.
Content(i) == [k \in 1..ArtLen |-> i]

\* g_checksum over a byte sequence: distinct sequences get distinct digests.
RECURSIVE Sha1(_)
Sha1(s) == IF s = <<>> THEN 1
           ELSE Sha1(SubSeq(s, 1, Len(s) - 1)) * (MaxId + 1) + s[Len(s)]

\* A digest no served file has (byte 0 is never served).
WrongSha1 == Sha1([k \in 1..ArtLen |-> 0])

\* Variant of process_deployment_cleanup(): the file is left in place.
KeepFile(f) == f

\* process_deployment_cleanup(): a regular file at the download location is
\* removed.
process_deployment_cleanup(f) == IF f.exists THEN NoFile ELSE f

(* ------------------------------------------------------------------------ *)
(* Feedback (json_build_status + POST)                                      *)
(* ------------------------------------------------------------------------ *)
IsTerminal(fin, exec) == fin \in {"success", "failure"} /\ exec = "closed"
IsProgress(fin, exec) == fin = "none" /\ exec = "proceeding"

\* feedback(url, active_action->id, detail, finished, execution) sent for the
\* deployment of artifact a while the stored action id is i: the artifact's
\* history after it.
feedback(a, i, fin, exec, det) ==
    [a EXCEPT !.n = @ + 1,
              !.term = @ + (IF IsTerminal(fin, exec) THEN 1 ELSE 0),
              !.odd = @ \/ (~IsTerminal(fin, exec) /\ ~IsProgress(fin, exec)),
              !.badid = @ \/ (i # a.id),
              !.last = [fin |-> fin, exec |-> exec, det |-> det]]

\* Variant of feedback_progress(): the feedback closes the action.
feedback_terminal(a, i, det) == feedback(a, i, "failure", "closed", det)

\* feedback_progress(): finished = none, execution = proceeding
feedback_progress(a, i, det) == feedback(a, i, "none", "proceeding", det)

\* Variant of the cancel feedback: the execution is always closed.
CancelFeedbackClosed(stop, fin, exec) == [stop |-> stop, fin |-> fin, exec |-> "closed"]

\* a feedback sent to cancelAction/<stop>/feedback
CancelFeedback(stop, fin, exec) == [stop |-> stop, fin |-> fin, exec |-> exec]

NoFeedback == [fin |-> "", exec |-> "", det |-> ""]

\* An artifact: id, do_install, maintenance_window and sha1 as parsed, and the
\* history of its deployment: n feedbacks sent, term of them terminal, odd if
\* one was neither terminal nor progress, badid if one carried another id than
\* the deployment's, the last one sent, handed once the install driver was
\* invoked, and how the worker or the install ended.
NoArt == [id |-> 0, do_install |-> FALSE, mw |-> "null", sha1 |-> 0,
          n |-> 0, term |-> 0, odd |-> FALSE, badid |-> FALSE, last |-> NoFeedback,
          handed |-> FALSE, end |-> "none"]
NoCtx == [art |-> NoArt, bundle |-> "", auth_header |-> "NULL", queue |-> <<>>,
          status_result |-> -2, keep |-> FALSE, left |-> 0, pushed |-> <<>>,
          popped |-> <<>>]

\* No deployment resource read.
NoResp ==
    [get |-> FALSE, download |-> "", update |-> "", id |-> 0, mw |-> "null",
     chunks |-> 0, artifacts |-> 0, fields |-> FALSE, size |-> 0, free |-> 0,
     statvfs |-> FALSE, sha1ok |-> FALSE]

\* A GError: its domain ("curl" for RHU_HAWKBIT_CLIENT_CURL_ERROR, "http" for
\* RHU_HAWKBIT_CLIENT_HTTP_ERROR, "file" for G_FILE_ERROR) and its code.
NoError == [domain |-> "none", code |-> "none"]

\* One pass of the download loop: the offset handed to get_binary() (-1 = no
\* attempt made), the error it returned, and the time slept since (ms).
NoAttempt == [resume_from |-> -1, error |-> NoError, slept |-> 0]

(* ------------------------------------------------------------------------ *)
(* Initial state: hawkbit_start_service_sync()                              *)
(* ------------------------------------------------------------------------ *)
\* main() is not followed
\* Variant of the owner below: no call is made under the mutex.
OwnerNone(thread, locked) == "free"

\* The owner of the action mutex during a call by thread: the thread itself
\* if the call is made between its g_mutex_lock and g_mutex_unlock.
Owner(thread, locked) == IF locked THEN thread ELSE "free"

\* A network or bus call of a step, for the history io.
Call(op, thread, locked) == [op |-> op, by |-> thread, mutex |-> Owner(thread, locked)]

\* io while the calls are not followed
Untraced == {[op |-> "untraced", by |-> "none", mutex |-> "free"]}

\* The calls of a step, if they are followed.
Io(calls) == IF io = Untraced THEN io ELSE calls

\* An access of a field of the HawkbitAction (state or id) by a thread, made
\* between the thread's g_mutex_lock and g_mutex_unlock or not.
Access(field, kind, thread, locked) ==
    [field |-> field, kind |-> kind, by |-> thread,
     mutex |-> IF locked THEN thread ELSE "free"]

\* reads and writes of fields within a locked section of thread
Reads(fields, thread) == {Access(f, "read", thread, TRUE) : f \in fields}
Writes(fields, thread) == {Access(f, "write", thread, TRUE) : f \in fields}

\* acc while the accesses are not followed
NoAcc == {[field |-> "untraced", kind |-> "none", by |-> "none", mutex |-> "free"]}

\* The accesses of a step, if they are followed.
Acc(accesses) == IF acc = NoAcc THEN acc ELSE accesses

NoBoot == [pc |-> "off", args |-> <<>>, code |-> 0]

\* $.config.polling.sleep is absent
NoSleep == [kind |-> "absent", h |-> 0, m |-> 0, s |-> 0]

\* the timer is not followed
NoTimer == [on |-> FALSE, last_run_sec |-> 0, hawkbit_interval_check_sec |-> 0,
            sleep |-> NoSleep, gap |-> 0, polled |-> FALSE]

RrIdle == [pc |-> "off", method |-> "GET", retry_count |-> 0, requests |-> 0,
           slept |-> 0, last |-> "none", res |-> FALSE]

InitClient ==
    /\ state = ACTION_STATE_NONE
    /\ id = 0
    /\ mutex = "free"
    /\ signaled = FALSE
    /\ file = NoFile
    /\ pollpc = "idle"
    /\ cancelLink = FALSE
    /\ res = FALSE
    /\ stop_id = 0
    /\ pArt = NoArt
    /\ resp = NoResp
    /\ dlpc = "none"
    /\ dlArt = NoArt
    /\ sha1sum = 0
    /\ dlret = FALSE
    /\ attempt = NoAttempt
    /\ instpc = "none"
    /\ ictx = NoCtx
    /\ halted = "no"
    /\ nacc = 0
    /\ tick = {}
    /\ swst = -1
    /\ crFrom = -1
    /\ canFb = <<>>
    /\ foreign = FALSE

\* CURLcodes that should lead to download resuming
resumable_codes ==
    {"CURLE_OPERATION_TIMEDOUT", "CURLE_COULDNT_RESOLVE_HOST", "CURLE_COULDNT_CONNECT",
     "CURLE_PARTIAL_FILE", "CURLE_SEND_ERROR", "CURLE_RECV_ERROR", "CURLE_HTTP2",
     "CURLE_HTTP2_STREAM"}

\* The errors get_binary() returns: g_fopen failed (G_FILE_ERROR), a libcurl
\* error (resumable or not), an HTTP status other than 200, 206 and 416.
DownloadErrors ==
    {[domain |-> "file", code |-> "G_FILE_ERROR_FAILED"],
     [domain |-> "http", code |-> "404"]}
    \cup {[domain |-> "curl", code |-> c] : c \in resumable_codes \cup {"CURLE_WRITE_ERROR"}}

\* A resumable error and one that is not.
SomeErrors ==
    {[domain |-> "curl", code |-> "CURLE_PARTIAL_FILE"],
     [domain |-> "http", code |-> "404"]}

\* The configurations explored: download to a file or streaming, service or
\* run_once mode, with resume_downloads and post_update_reboot on and off;
\* downloads meet a resumable error and one that is not.
Configs ==
    {[resume |-> TRUE, stream |-> FALSE, reboot |-> FALSE, once |-> FALSE,
      errors |-> SomeErrors, retry_wait |-> DEFAULT_RETRY_WAIT],
     [resume |-> FALSE, stream |-> FALSE, reboot |-> TRUE, once |-> FALSE,
      errors |-> SomeErrors, retry_wait |-> DEFAULT_RETRY_WAIT],
     [resume |-> TRUE, stream |-> FALSE, reboot |-> TRUE, once |-> TRUE,
      errors |-> SomeErrors, retry_wait |-> DEFAULT_RETRY_WAIT],
     [resume |-> FALSE, stream |-> TRUE, reboot |-> FALSE, once |-> FALSE,
      errors |-> SomeErrors, retry_wait |-> DEFAULT_RETRY_WAIT],
     [resume |-> FALSE, stream |-> TRUE, reboot |-> TRUE, once |-> TRUE,
      errors |-> SomeErrors, retry_wait |-> DEFAULT_RETRY_WAIT]}

Init ==
    /\ cfg \in Configs
    /\ InitClient
    /\ rr = RrIdle
    /\ boot = NoBoot
    /\ cdata = NoTimer
    /\ io = Untraced
    /\ acc = NoAcc

(* ------------------------------------------------------------------------ *)
(* Poll thread: hawkbit_pull_cb()                                           *)
(* ------------------------------------------------------------------------ *)
\* res is read only at "out" in run_once mode (data->res).
Res(v) == IF cfg.once THEN v ELSE FALSE

\* Variant of the step below: the cancel link is not looked at.
AfterDeploymentNoCancel(can) == "sleeptime"

\* hawkbit_pull_cb after the deployment branch: process_cancel if the base
\* resource has _links.cancelAction, then the sleep time
AfterDeployment(can) == IF can THEN "pc_lock" ELSE "sleeptime"

\* History of a run_once tick: the step whose result was FALSE.
Failed(ok, step) == IF cfg.once /\ ~ok THEN {step} ELSE {}

\* What $.config.polling.sleep of the base resource can be: absent, a string
\* that is no time, or a time HH:MM:SS.
PollingSleeps ==
    {NoSleep, [kind |-> "unparseable", h |-> 0, m |-> 0, s |-> 0],
     [kind |-> "time", h |-> 0, m |-> 0, s |-> 0],
     [kind |-> "time", h |-> 0, m |-> 0, s |-> 2],
     [kind |-> "time", h |-> 0, m |-> 1, s |-> 1]}

\* History of the timer: the GET of the base resource is issued.
Polled(c) == [c EXCEPT !.polled = TRUE, !.gap = 0]

\* Variant of the failure branch below: the interval is left as it is.
OnPollFailureKeep(c) == c

\* "data->hawkbit_interval_check_sec = hawkbit_config->retry_wait; goto out"
OnPollFailure(c) == [c EXCEPT !.hawkbit_interval_check_sec = cfg.retry_wait]

\* GET of the base resource (on failure straight to "out"), then identify()
\* if the response has _links.configData: PUT configData, only res depends
\* on it.
PullStart ==
    /\ halted = "no" /\ pollpc = "idle"
    /\ \/ /\ res' = FALSE /\ cancelLink' = FALSE /\ pollpc' = "out"
          /\ tick' = {"base"} \cup Failed(FALSE, "base_failed")
          /\ cdata' = IF cdata.on THEN OnPollFailure(Polled(cdata)) ELSE cdata
          /\ io' = Io({Call("base_get", "poll", FALSE)})
       \/ \E config \in BOOLEAN, dep \in BOOLEAN, can \in BOOLEAN, ok \in BOOLEAN :
            /\ config \/ ok
            /\ dep => nacc < MaxAccept
            /\ res' = Res(ok)
            /\ cancelLink' = can
            /\ pollpc' = IF dep THEN "pd_lock" ELSE AfterDeployment(can)
            /\ tick' = {"base"} \cup Failed(ok, "identify_failed")
            /\ io' = Io({Call("base_get", "poll", FALSE)}
                        \cup IF config THEN {Call("identify", "poll", FALSE)} ELSE {})
            /\ IF cdata.on
               THEN \E sl \in PollingSleeps : cdata' = [Polled(cdata) EXCEPT !.sleep = sl]
               ELSE UNCHANGED cdata
    /\ acc' = Acc({})
    /\ UNCHANGED <<cfg, actionVars, mutex, signaled, file, stop_id, pArt, resp, dlVars,
                   instVars, halted, nacc, swst, crFrom, canFb, foreign, rr, boot>>

\* What the deployment resource can look like.
DefaultResponse ==
    [get |-> TRUE, download |-> "attempt", update |-> "attempt", id |-> 1,
     mw |-> "null", chunks |-> 1, artifacts |-> 1, fields |-> TRUE, size |-> 1,
     free |-> 1, statvfs |-> TRUE, sha1ok |-> TRUE]

DeploymentResponses ==
    {[DefaultResponse EXCEPT !.get = FALSE],
     [DefaultResponse EXCEPT !.download = "missing"],
     [DefaultResponse EXCEPT !.download = "skip"],
     [DefaultResponse EXCEPT !.update = "missing"]}
    \cup {[DefaultResponse EXCEPT !.id = i, !.update = "skip", !.mw = m] :
            i \in 0..MaxId, m \in MaintenanceWindows}
    \cup {[DefaultResponse EXCEPT !.id = i, !.sha1ok = s] :
            i \in 0..MaxId, s \in BOOLEAN}
    \cup {[DefaultResponse EXCEPT !.id = i, !.chunks = c, !.artifacts = a, !.fields = f] :
            i \in Ids, c \in 1..2, a \in 1..2, f \in BOOLEAN}
    \cup {[DefaultResponse EXCEPT !.id = i, !.size = sz, !.free = fr, !.statvfs = v] :
            i \in Ids, sz \in 0..MaxSize, fr \in 0..MaxSize, v \in BOOLEAN}

\* The artifact process_deployment builds from response r.
ArtifactOf(r) ==
    [NoArt EXCEPT !.id = r.id, !.do_install = (r.update # "skip"), !.mw = r.mw,
                  !.sha1 = IF r.sha1ok THEN Sha1(Content(r.id)) ELSE WrongSha1]

\* Variant of the download=skip branch: never taken.
DownloadSkipNever(r) == FALSE

\* deployment.download is "skip"
DownloadSkip(r) == r.download = "skip"

\* Variant of "still waiting": the branch is never taken.
StillWaitingNever(r, i) == FALSE

\* deployment.update is "skip" and the id is the stored one: still waiting
StillWaiting(r, i) == r.update = "skip" /\ r.id = i

\* Variant of the checks below: the number of chunks is not looked at.
ProcErrorAnyChunks(r) ==
    \/ r.artifacts > 1
    \/ ~r.fields
    \/ r.size = 0

\* Parsing checks between "remember deployment's action id" and the stream /
\* disk space branch: each failure is a goto proc_error.
ProcError(r) ==
    \/ r.chunks > 1
    \/ r.artifacts > 1
    \/ ~r.fields
    \/ r.size = 0

\* Variant of the check below: free space equal to the size is refused.
NoSpaceOnEqual(r) == ~r.statvfs \/ r.free <= r.size

\* get_available_space() failed or freespace < artifact->size
NoSpace(r) == ~r.statvfs \/ r.free < r.size

\* The error proc_error reports, by the check that failed first.
ProcErrorCode(r, stream) ==
    IF r.chunks > 1 THEN "RHU_HAWKBIT_CLIENT_ERROR_MULTI_CHUNKS"
    ELSE IF r.artifacts > 1 THEN "RHU_HAWKBIT_CLIENT_ERROR_MULTI_ARTIFACTS"
    ELSE IF ~r.fields \/ r.size = 0 THEN "RHU_HAWKBIT_CLIENT_ERROR_JSON_RESPONSE_PARSE"
    ELSE IF stream THEN ""
    ELSE IF ~r.statvfs THEN "G_FILE_ERROR_FAILED"
    ELSE IF r.free < r.size THEN "G_FILE_ERROR_NOSPC"
    ELSE ""

\* Variant of the check at the head of process_deployment(): > instead of >=.
InProgressStrict(st) == st > ACTION_STATE_PROCESSING

\* The head of process_deployment(): a deployment is already in progress.
InProgress(st) == st >= ACTION_STATE_PROCESSING

\* process_deployment() has come to "remember deployment's action id" with
\* the deployment resource r
ReachesId(r) == r.get /\ r.download \notin {"missing", "skip"} /\ r.update # "missing"

\* g_strcmp0(temp_id, active_action->id): the deployment's id is not the
\* stored one
IdChanged(temp_id, i) == temp_id # i

\* g_mutex_lock in hawkbit_pull_cb, then process_deployment() to its return
\* (and the unlock), to the join of the previous worker (mutex kept), or to
\* the streaming hand-off.
ProcessDeployment ==
    /\ halted = "no" /\ pollpc = "pd_lock" /\ mutex = "free"
    /\ IF InProgress(state)
       THEN \* already in progress: return FALSE, unlock
            /\ res' = FALSE
            /\ pollpc' = AfterDeployment(cancelLink)
            /\ tick' = tick \cup {"busy"} \cup Failed(FALSE, "deployment_failed")
            /\ resp' = NoResp
            /\ UNCHANGED <<state, id, mutex, file, pArt, nacc>>
       ELSE \E r \in DeploymentResponses :
        LET do_install == r.update # "skip"
            changed == IdChanged(r.id, id)
            fileC == IF changed THEN process_deployment_cleanup(file) ELSE file
            art == ArtifactOf(r)
            processing == ACTION_STATE_PROCESSING   \* the state set at the head
            toError(f) ==   \* error: cleanup, state NONE, return FALSE
                /\ file' = process_deployment_cleanup(f)
                /\ state' = ACTION_STATE_NONE
                /\ res' = FALSE
                /\ mutex' = "free"
                /\ pollpc' = AfterDeployment(cancelLink)
            ret ==          \* return TRUE with state NONE
                /\ state' = ACTION_STATE_NONE
                /\ res' = Res(TRUE)
                /\ mutex' = "free"
                /\ pollpc' = AfterDeployment(cancelLink)
        IN
        /\ resp' = r
        /\ nacc' = nacc + 1
        /\ IF ~r.get \/ r.download = "missing"
           THEN toError(file) /\ UNCHANGED <<id, pArt>>
           ELSE IF DownloadSkip(r)
           THEN ret /\ UNCHANGED <<id, pArt, file>>
           ELSE IF r.update = "missing"
           THEN toError(file) /\ UNCHANGED <<id, pArt>>
           ELSE IF StillWaiting(r, id)
           THEN ret /\ UNCHANGED <<id, pArt, file>>
           ELSE IF r.id = 0
           THEN toError(fileC) /\ id' = 0 /\ UNCHANGED pArt
           ELSE IF ProcError(r) \/ (~cfg.stream /\ NoSpace(r))
           THEN \* proc_error: feedback failure/closed, then error
                /\ toError(fileC)
                /\ id' = r.id
                /\ pArt' = [feedback(art, r.id, "failure", "closed",
                                     ProcErrorCode(r, cfg.stream))
                              EXCEPT !.end = "rejected"]
           ELSE IF cfg.stream
           THEN \* start_streaming_installation()
                /\ id' = r.id
                /\ file' = fileC
                /\ IF processing = ACTION_STATE_CANCEL_REQUESTED
                   THEN /\ state' = ACTION_STATE_CANCELED
                        /\ res' = Res(TRUE) /\ mutex' = "free"
                        /\ pollpc' = AfterDeployment(cancelLink)
                        /\ UNCHANGED pArt
                   ELSE IF ~do_install
                   THEN /\ state' = ACTION_STATE_NONE
                        /\ res' = Res(TRUE) /\ mutex' = "free"
                        /\ pollpc' = AfterDeployment(cancelLink)
                        /\ UNCHANGED pArt
                   ELSE /\ state' = ACTION_STATE_INSTALLING
                        /\ mutex' = "free"
                        /\ pArt' = art
                        /\ pollpc' = "pd_stream_cb"
                        /\ UNCHANGED res
           ELSE \* staged: on to g_thread_join / g_thread_new, mutex still held
                /\ id' = r.id
                /\ file' = fileC
                /\ pArt' = art
                /\ state' = processing
                /\ mutex' = "poll"
                /\ pollpc' = "pd_spawn"
                /\ UNCHANGED res
        /\ tick' = tick \cup {"deployment"}
                   \cup Failed(pollpc' \in {"pd_spawn", "pd_stream_cb"} \/ res',
                              "deployment_failed")
    /\ acc' = Acc(Reads({"state"}, "poll")
                 \cup IF InProgress(state) THEN Reads({"id"}, "poll")
                      ELSE Writes({"state"}, "poll")
                           \cup IF ReachesId(resp')
                                THEN Reads({"id"}, "poll")
                                     \cup IF StillWaiting(resp', id) THEN {}
                                          ELSE Writes({"id"}, "poll")
                                ELSE {})
    /\ UNCHANGED <<cfg, signaled, cancelLink, stop_id, dlVars, instVars, halted,
                   swst, crFrom, canFb, foreign, rr, boot, cdata>>
    /\ io' = Io(IF InProgress(state) THEN {}
                ELSE {Call("deployment_get", "poll", TRUE)}
                     \cup IF pArt' # pArt /\ pArt'.end = "rejected"
                          THEN {Call("feedback", "poll", TRUE)} ELSE {})

\* Variant of the context below: the status is left as install_context_new
\* set it.
RaucInstallStatusUnset(a, bundle, auth_header, wait) ==
    [art |-> [a EXCEPT !.handed = TRUE], bundle |-> bundle, auth_header |-> auth_header,
     queue |-> <<>>, status_result |-> -2, keep |-> wait, left |-> MaxProgress,
     pushed |-> <<>>, popped |-> <<>>]

\* rauc_install() up to g_thread_new: the context the install thread tick for
\* artifact a.  (status_result is -2 after install_context_new and 2 here.)
rauc_install(a, bundle, auth_header, wait) ==
    [art |-> [a EXCEPT !.handed = TRUE], bundle |-> bundle, auth_header |-> auth_header,
     queue |-> <<>>, status_result |-> 2, keep |-> wait, left |-> MaxProgress,
     pushed |-> <<>>, popped |-> <<>>]

\* rauc_install() with wait: the result read from the context after the join
WaitResult(c) == c.status_result = 0

\* get_auth_header(): the target or gateway token header
get_auth_header == "Authorization"

\* Variant of the userdata below: no authentication header for streaming.
UserdataNoAuth(stream) ==
    [file |-> IF stream THEN "download_url" ELSE "bundle_download_location",
     auth_header |-> "NULL"]

\* on_new_software_userdata as start_streaming_installation() (stream) and
\* download_thread() fill it in
Userdata(stream) ==
    [file |-> IF stream THEN "download_url" ELSE "bundle_download_location",
     auth_header |-> IF stream THEN get_auth_header ELSE "NULL"]

\* software_ready_cb(&userdata): rauc_install() with the userdata's file and
\* authentication header; its return value becomes userdata->install_success
on_new_software_ready_cb(a, userdata, wait) ==
    rauc_install(a, userdata.file, userdata.auth_header, wait)

\* install_context_free(): both assertions hold
ContextFreeOk(c) == c.status_result >= 0 /\ c.queue = <<>>

\* Variant of the join below: it does not wait for the thread.
JoinNoWait(pc) == TRUE

\* "if (thread) g_thread_join(thread)" returns when there is no thread or the
\* thread has returned
g_thread_join(pc) == pc \in {"none", "done"}

\* g_thread_join(thread_download); g_thread_new("downloader", ...); return
\* TRUE; unlock.
PdSpawn ==
    /\ halted = "no" /\ pollpc = "pd_spawn"
    /\ g_thread_join(dlpc)
    /\ dlpc' = "start"
    /\ dlArt' = pArt
    /\ pArt' = NoArt
    /\ resp' = NoResp
    /\ sha1sum' = 0
    /\ dlret' = FALSE
    /\ attempt' = NoAttempt
    /\ res' = Res(TRUE)
    /\ mutex' = "free"
    /\ pollpc' = AfterDeployment(cancelLink)
    /\ acc' = Acc({})
    /\ UNCHANGED <<cfg, actionVars, signaled, file, cancelLink, stop_id,
                   instVars, halted, nacc, tickVars, foreign, rr, boot, cdata>>
    /\ io' = Io({})

\* start_streaming_installation(): software_ready_cb(&userdata), i.e.
\* rauc_install(): join the previous install thread, start the new one.
PdStreamCb ==
    /\ halted = "no" /\ pollpc = "pd_stream_cb"
    /\ g_thread_join(instpc)
    /\ instpc' = "start"
    /\ ictx' = on_new_software_ready_cb(pArt, Userdata(TRUE), cfg.once)
    /\ pArt' = NoArt
    /\ pollpc' = IF cfg.once THEN "pd_stream_join" ELSE "pd_stream_ret"
    /\ acc' = Acc({})
    /\ UNCHANGED <<cfg, actionVars, mutex, signaled, file, cancelLink, res, stop_id,
                   resp, dlVars, halted, nacc, tickVars, foreign, rr, boot, cdata>>
    /\ io' = Io({})

\* rauc_install() with wait: g_thread_join(thread_install), install_context_free
PdStreamJoin ==
    /\ halted = "no" /\ pollpc = "pd_stream_join"
    /\ instpc = "done"
    /\ IF ContextFreeOk(ictx)
       THEN /\ pollpc' = "pd_stream_ret"
            /\ res' = WaitResult(ictx)
            /\ tick' = tick \cup Failed(WaitResult(ictx), "install_failed")
            /\ ictx' = NoCtx
            /\ UNCHANGED halted
       ELSE halted' = "aborted" /\ UNCHANGED <<pollpc, ictx, res, tick>>
    /\ resp' = NoResp
    /\ acc' = Acc({})
    /\ UNCHANGED <<cfg, actionVars, mutex, signaled, file, cancelLink, stop_id, pArt,
                   dlVars, instpc, nacc, swst, crFrom, canFb, foreign, rr, boot, cdata>>
    /\ io' = Io({})

\* start_streaming_installation() after software_ready_cb: lock again and
\* return userdata.install_success (in run_once mode the result of the install
\* waited for, held in res since the join); hawkbit_pull_cb unlocks.
PdStreamRet ==
    /\ halted = "no" /\ pollpc = "pd_stream_ret" /\ mutex = "free"
    /\ res' = IF cfg.once THEN res ELSE Res(TRUE)
    /\ pollpc' = AfterDeployment(cancelLink)
    /\ resp' = NoResp
    /\ acc' = Acc({})
    /\ UNCHANGED <<cfg, actionVars, mutex, signaled, file, cancelLink, stop_id, pArt,
                   dlVars, instVars, halted, nacc, tickVars, foreign, rr, boot, cdata>>
    /\ io' = Io({})

(* ------------------------------------------------------------------------ *)
(* Poll thread: process_cancel()                                            *)
(* ------------------------------------------------------------------------ *)
\* Variant of the condition below: every state of a running action.
CancelableRunning(stop, i, st) == stop = i /\ st >= ACTION_STATE_PROCESSING

\* The condition under which process_cancel requests the cancel and waits.
Cancelable(stop, i, st) ==
    /\ stop = i
    /\ st \in {ACTION_STATE_PROCESSING, ACTION_STATE_DOWNLOADING}

\* Variant of the state the feedback switch reads: NONE whatever the stopId.
SwitchStateReset(stop, i, st) == ACTION_STATE_NONE

\* The state the feedback switch of process_cancel reads: a stopId other than
\* the active id resets the state to NONE first.
SwitchState(stop, i, st) == IF stop # i THEN ACTION_STATE_NONE ELSE st

\* "if (g_strcmp0(stop_id, id)) state = NONE", the feedback switch, unlock and
\* return.
CancelSwitch(stop) ==
    LET st == SwitchState(stop, id, state) IN
    /\ state' = st
    /\ swst' = st
    /\ foreign' = (foreign \/ (stop # id /\ state >= ACTION_STATE_PROCESSING))
    /\ IF st \in {ACTION_STATE_NONE, ACTION_STATE_CANCELED}
       THEN /\ canFb' = Append(canFb, CancelFeedback(stop, "success", "closed"))
            /\ \E ok \in BOOLEAN : res' = Res(ok)
            /\ pollpc' = "sleeptime" /\ UNCHANGED halted
       ELSE IF st \in {ACTION_STATE_SUCCESS, ACTION_STATE_ERROR}
       THEN /\ res' = Res(TRUE)
            /\ pollpc' = "sleeptime"
            /\ UNCHANGED <<canFb, halted>>
       ELSE IF st = ACTION_STATE_INSTALLING
       THEN /\ canFb' = Append(canFb, CancelFeedback(stop, "success", "rejected"))
            /\ res' = FALSE
            /\ pollpc' = "sleeptime" /\ UNCHANGED halted
       ELSE \* default: g_assert_not_reached()
            /\ halted' = "aborted"
            /\ UNCHANGED <<canFb, res, pollpc>>

\* process_cancel() from the GET of the cancel resource (the GET or the stopId
\* may fail) over g_mutex_lock to g_cond_wait, which releases the mutex, or to
\* its return.
ProcessCancel ==
    /\ halted = "no" /\ pollpc = "pc_lock" /\ mutex = "free"
    /\ \/ /\ res' = FALSE /\ pollpc' = "sleeptime"
          /\ tick' = tick \cup {"cancel"} \cup Failed(FALSE, "cancel_failed")
          /\ UNCHANGED <<state, signaled, stop_id, swst, crFrom, canFb, foreign, halted>>
       \/ \E s \in Ids :
            /\ stop_id' = s
            /\ IF Cancelable(s, id, state)
               THEN /\ state' = ACTION_STATE_CANCEL_REQUESTED
                    /\ crFrom' = state
                    /\ signaled' = FALSE
                    /\ pollpc' = "pc_wait"
                    /\ tick' = tick \cup {"cancel"}
                    /\ UNCHANGED <<res, swst, canFb, foreign, halted>>
               ELSE /\ CancelSwitch(s)
                    /\ tick' = tick \cup {"cancel"}
                               \cup Failed(pollpc' # "sleeptime" \/ res', "cancel_failed")
                    /\ UNCHANGED <<signaled, crFrom>>
    /\ pArt' = NoArt
    /\ resp' = NoResp
    /\ acc' = Acc(IF stop_id' = 0 THEN {}
                 ELSE Reads({"id", "state"}, "poll")
                      \cup IF Cancelable(stop_id', id, state) \/ stop_id' # id
                           THEN Writes({"state"}, "poll") ELSE {})
    /\ UNCHANGED <<cfg, id, mutex, file, cancelLink, dlVars, instVars, nacc, rr, boot, cdata>>
    /\ io' = Io({Call("cancel_get", "poll", FALSE)}
                \cup IF canFb' # canFb THEN {Call("cancel_feedback", "poll", TRUE)}
                     ELSE {})

\* g_cond_wait returns (mutex re-acquired); the loop condition is re-read.
WakeUp ==
    /\ signaled' = FALSE
    /\ IF state = ACTION_STATE_CANCEL_REQUESTED
       THEN UNCHANGED <<state, pollpc, res, halted, swst, crFrom, canFb, foreign, tick>>
       ELSE /\ CancelSwitch(stop_id)
            /\ tick' = tick \cup Failed(pollpc' # "sleeptime" \/ res', "cancel_failed")
            /\ UNCHANGED crFrom
    /\ acc' = Acc(Reads({"state"}, "poll")
                 \cup IF state = ACTION_STATE_CANCEL_REQUESTED THEN {}
                      ELSE Reads({"id"}, "poll")
                           \cup IF stop_id # id THEN Writes({"state"}, "poll") ELSE {})
    /\ UNCHANGED <<cfg, id, mutex, file, cancelLink, stop_id, pArt, resp, dlVars,
                   instVars, nacc, rr, boot, cdata>>
    /\ io' = Io(IF canFb' # canFb THEN {Call("cancel_feedback", "poll", TRUE)} ELSE {})

\* woken by g_cond_signal
PcWake ==
    /\ halted = "no" /\ pollpc = "pc_wait" /\ mutex = "free" /\ signaled
    /\ WakeUp

\* g_cond_wait may also return without a signal (spurious wakeup); nothing
\* guarantees that it ever does.
PcWakeSpurious ==
    /\ halted = "no" /\ pollpc = "pc_wait" /\ mutex = "free" /\ ~signaled
    /\ state # ACTION_STATE_CANCEL_REQUESTED
    /\ WakeUp

\* What struct tm holds after strptime(sleeptime_str, "%T", &time): the time
\* of a string HH:MM:SS; the struct is not initialized and the return value
\* of strptime is not read, so after any other string it holds whatever the
\* stack held.
strptime(sl) ==
    IF sl.kind = "time" THEN {[h |-> sl.h, m |-> sl.m, s |-> sl.s]}
    ELSE {[h |-> 0, m |-> 0, s |-> 0], [h |-> 0, m |-> 0, s |-> 4],
          [h |-> 0, m |-> 0, s |-> -1]}

\* the states in which json_get_sleeptime returns the fixed 5 s
ActiveForSleep(st) ==
    \/ st = ACTION_STATE_PROCESSING
    \/ st = ACTION_STATE_DOWNLOADING
    \/ st = ACTION_STATE_CANCEL_REQUESTED

\* json_get_sleeptime(): tm is what strptime left in struct tm
json_get_sleeptime(st, sl, tm) ==
    IF ActiveForSleep(st) THEN 5
    ELSE IF sl.kind = "absent" THEN cfg.retry_wait
    ELSE tm.s + (tm.m * 60) + (tm.h * 60 * 60)

\* Variant of the access below: the state is read without the mutex.
SleeptimeAccessUnlocked(thread) == {Access("state", "read", thread, FALSE)}

\* json_get_sleeptime(): g_mutex_lock, the state is compared, g_mutex_unlock
SleeptimeAccess(thread) == Reads({"state"}, thread)

\* json_get_sleeptime() (reads the state under the mutex), then label out: in
\* run_once mode join the download thread, take its result and quit the main
\* loop; otherwise return and wait for the next tick.
Out ==
    /\ halted = "no"
    /\ \/ pollpc = "sleeptime" /\ mutex = "free"
       \/ pollpc = "out"
    /\ IF cfg.once
       THEN /\ dlpc \in {"none", "done"}
            /\ res' = IF dlpc = "done" THEN dlret ELSE res
            /\ halted' = "exited"
            /\ pollpc' = "exited"
            /\ UNCHANGED <<cancelLink, stop_id, pArt, resp, tickVars, cdata>>
       ELSE /\ pollpc' = IF cdata.on THEN "timer" ELSE "idle"
            /\ IF cdata.on /\ pollpc = "sleeptime"
               THEN \E tm \in strptime(cdata.sleep) :
                      cdata' = [cdata EXCEPT !.hawkbit_interval_check_sec =
                                                json_get_sleeptime(state, cdata.sleep, tm),
                                             !.sleep = NoSleep]
               ELSE UNCHANGED cdata
            /\ cancelLink' = FALSE /\ stop_id' = 0 /\ pArt' = NoArt /\ res' = FALSE
            /\ resp' = NoResp
            /\ tick' = {} /\ swst' = -1 /\ crFrom' = -1 /\ canFb' = <<>>
            /\ UNCHANGED halted
    /\ acc' = Acc(IF pollpc = "sleeptime" THEN SleeptimeAccess("poll") ELSE {})
    /\ UNCHANGED <<cfg, actionVars, mutex, signaled, file, dlVars, instVars, nacc,
                   foreign, rr, boot>>
    /\ io' = Io({})

(* ------------------------------------------------------------------------ *)
(* Download worker: download_thread()                                       *)
(* ------------------------------------------------------------------------ *)
\* g_cond_signal(&active_action->cond): only a waiting process_cancel hears it
Signal == IF pollpc = "pc_wait" THEN TRUE ELSE signaled

\* the thread's return value is read only by the join in run_once mode
Ret(v) == IF cfg.once THEN v ELSE FALSE

\* label cancel (mutex held): CANCEL_REQUESTED becomes CANCELED, cleanup,
\* signal, unlock, return FALSE.  st is the state on arrival at the label.
DlCancel(st) ==
    /\ state' = IF st = ACTION_STATE_CANCEL_REQUESTED THEN ACTION_STATE_CANCELED ELSE st
    /\ file' = process_deployment_cleanup(file)
    /\ signaled' = Signal
    /\ dlpc' = "exit"
    /\ dlret' = FALSE
    /\ sha1sum' = 0
    /\ attempt' = NoAttempt

\* the worker leaves through label cancel with a pending cancel request
Canceled(a) == [a EXCEPT !.end = "canceled"]

\* entry: lock, cancel check, state DOWNLOADING, unlock
DlEntry ==
    /\ halted = "no" /\ dlpc = "start" /\ mutex = "free"
    /\ IF state = ACTION_STATE_CANCEL_REQUESTED
       THEN DlCancel(state) /\ dlArt' = Canceled(dlArt)
       ELSE /\ state' = ACTION_STATE_DOWNLOADING
            /\ dlpc' = "loop"
            /\ UNCHANGED <<file, signaled, dlret, sha1sum, dlArt, attempt>>
    /\ acc' = Acc(Reads({"state"}, "worker") \cup Writes({"state"}, "worker"))
    /\ UNCHANGED <<cfg, id, mutex, pollVars, instVars, halted, nacc, tickVars, foreign, rr, boot, cdata>>
    /\ io' = Io({})

\* Variant of the offset below: every attempt starts at offset 0.
ResumeFromStart(f) == 0

\* g_stat(): the offset the next attempt resumes from
ResumeFrom(f) == IF f.exists THEN Len(f.data) ELSE 0

\* The bytes the server still sends when asked to start at offset off
\* (nothing, with status 416, at or beyond the end).
Served(i, off) == IF off >= ArtLen THEN <<>> ELSE SubSeq(Content(i), off + 1, ArtLen)

\* get_binary() opens the file "ab+" when resuming and "wb+" otherwise and
\* writes the first k bytes it receives.
Written(f, i, k) ==
    LET off == ResumeFrom(f)
        base == IF off > 0 THEN f.data ELSE <<>>
    IN [exists |-> TRUE, data |-> base \o SubSeq(Served(i, off), 1, k)]

\* resumable |= g_error_matches(error, RHU_HAWKBIT_CLIENT_CURL_ERROR, *code)
Resumable(e) == e.domain = "curl" /\ e.code \in resumable_codes

\* g_usleep(500000) before the next attempt
ResumeSleepMs == 500

\* Variant of the decision below: resume_downloads is not consulted.
GiveUpUnlessResumable(resume_downloads, resumable) == ~resumable

\* the error ends the resume loop
GiveUp(resume_downloads, resumable) == ~resume_downloads \/ ~resumable

\* One pass of the loop: g_stat, get_binary, and the decision on its error.
DlGetBinary ==
    /\ halted = "no" /\ dlpc = "loop"
    /\ LET resume_from == ResumeFrom(file)
           all == Len(Served(dlArt.id, resume_from)) IN
       \/ \* transfer complete: checksum over the whole file
          /\ file' = Written(file, dlArt.id, all)
          /\ sha1sum' = Sha1(file'.data)
          /\ attempt' = [NoAttempt EXCEPT !.resume_from = resume_from]
          /\ dlpc' = "complete"
       \/ \E k \in 0..all, e \in cfg.errors :
          /\ e.domain = "file" => k = 0
          /\ file' = IF e.domain = "file" THEN file ELSE Written(file, dlArt.id, k)
          /\ sha1sum' = 0
          /\ attempt' = [NoAttempt EXCEPT !.resume_from = resume_from, !.error = e]
          /\ dlpc' = IF GiveUp(cfg.resume, Resumable(e)) THEN "err_download"
                     ELSE "resume_check"
    /\ acc' = Acc({})
    /\ UNCHANGED <<cfg, actionVars, mutex, signaled, pollVars, dlArt, dlret,
                   instVars, halted, nacc, tickVars, foreign, rr, boot, cdata>>
    /\ io' = Io({Call("download", "worker", FALSE)})

\* resumable error: lock, cancel check, unlock, sleep 0.5 s, next attempt
DlResumeCheck ==
    /\ halted = "no" /\ dlpc = "resume_check" /\ mutex = "free"
    /\ IF state = ACTION_STATE_CANCEL_REQUESTED
       THEN DlCancel(state) /\ dlArt' = Canceled(dlArt)
       ELSE /\ dlpc' = "loop"
            /\ attempt' = [NoAttempt EXCEPT !.slept = ResumeSleepMs]
            /\ UNCHANGED <<state, file, signaled, dlret, sha1sum, dlArt>>
    /\ acc' = Acc(Reads({"state"}, "worker")
                 \cup IF state = ACTION_STATE_CANCEL_REQUESTED
                      THEN Writes({"state"}, "worker") ELSE {})
    /\ UNCHANGED <<cfg, id, mutex, pollVars, instVars, halted, nacc, tickVars, foreign, rr, boot, cdata>>
    /\ io' = Io({})

\* Variant of the checksum comparison: every digest is accepted.
ChecksumOkAny(art, sum) == TRUE

\* g_strcmp0(artifact->sha1, sha1sum) == 0
ChecksumOk(art, sum) == art.sha1 = sum

\* "Download complete" progress feedback under the mutex, then the checksum
\* comparison.
DlComplete ==
    /\ halted = "no" /\ dlpc = "complete" /\ mutex = "free"
    /\ dlArt' = feedback_progress(dlArt, id, "dlcomplete")
    /\ dlpc' = IF ChecksumOk(dlArt, sha1sum) THEN "post" ELSE "err_checksum"
    /\ attempt' = NoAttempt
    /\ acc' = Acc(Reads({"id"}, "worker"))
    /\ UNCHANGED <<cfg, actionVars, mutex, signaled, file, pollVars, sha1sum,
                   dlret, instVars, halted, nacc, tickVars, foreign, rr, boot, cdata>>
    /\ io' = Io({Call("feedback", "worker", TRUE)})

\* Variant of the download-only branch: never taken.
SkipInstallNever(art) == FALSE

\* download-only deployment that is reported as downloaded at once
SkipInstall(art) == ~art.do_install /\ (art.mw = "null" \/ art.mw = "available")

\* After the checksum: either SUCCESS with success/downloaded, or the
\* "File checksum OK." progress feedback.
DlPost ==
    /\ halted = "no" /\ dlpc = "post" /\ mutex = "free"
    /\ IF SkipInstall(dlArt)
       THEN /\ state' = ACTION_STATE_SUCCESS
            /\ dlArt' = [feedback(dlArt, id, "success", "downloaded", "cksum")
                           EXCEPT !.end = "downloaded"]
            /\ dlpc' = "exit"
            /\ dlret' = Ret(TRUE)
            /\ sha1sum' = 0
            /\ UNCHANGED attempt
       ELSE /\ dlArt' = feedback_progress(dlArt, id, "cksum")
            /\ dlpc' = "last"
            /\ UNCHANGED <<state, dlret, sha1sum, attempt>>
    /\ acc' = Acc(Reads({"id"}, "worker")
                 \cup IF SkipInstall(dlArt) THEN Writes({"state"}, "worker") ELSE {})
    /\ UNCHANGED <<cfg, id, mutex, signaled, file, pollVars, instVars, halted,
                   nacc, tickVars, foreign, rr, boot, cdata>>
    /\ io' = Io({Call("feedback", "worker", TRUE)})

\* Variant of the condition below: the install is never held back.
HoldInstallNever(art) == FALSE

\* "if (!artifact->do_install)" after the last chance to cancel: the bundle
\* waits for a later deployment to install it
HoldInstall(art) == ~art.do_install

\* "last chance to cancel installation", then NONE (no install asked for) or
\* INSTALLING
DlLast ==
    /\ halted = "no" /\ dlpc = "last" /\ mutex = "free"
    /\ IF state = ACTION_STATE_CANCEL_REQUESTED
       THEN DlCancel(state) /\ dlArt' = Canceled(dlArt)
       ELSE IF HoldInstall(dlArt)
       THEN /\ state' = ACTION_STATE_NONE
            /\ dlpc' = "exit"
            /\ dlret' = Ret(TRUE)
            /\ sha1sum' = 0
            /\ dlArt' = [dlArt EXCEPT !.end = "waiting"]
            /\ UNCHANGED <<file, signaled, attempt>>
       ELSE /\ state' = ACTION_STATE_INSTALLING
            /\ signaled' = Signal
            /\ dlpc' = "install"
            /\ UNCHANGED <<file, dlret, dlArt, sha1sum, attempt>>
    /\ acc' = Acc(Reads({"state"}, "worker") \cup Writes({"state"}, "worker"))
    /\ UNCHANGED <<cfg, id, mutex, pollVars, instVars, halted, nacc, tickVars, foreign, rr, boot, cdata>>
    /\ io' = Io({})

\* software_ready_cb(&userdata): rauc_install() joins the previous install
\* thread and starts the new one; without wait it returns TRUE at once.
DlInstall ==
    /\ halted = "no" /\ dlpc = "install"
    /\ g_thread_join(instpc)
    /\ instpc' = "start"
    /\ ictx' = on_new_software_ready_cb(dlArt, Userdata(FALSE), cfg.once)
    /\ dlArt' = [dlArt EXCEPT !.handed = TRUE, !.end = "handed"]
    /\ dlpc' = IF cfg.once THEN "wait_install" ELSE "exit"
    /\ dlret' = IF cfg.once THEN FALSE ELSE Ret(TRUE)
    /\ sha1sum' = 0
    /\ acc' = Acc({})
    /\ UNCHANGED <<cfg, actionVars, mutex, signaled, file, pollVars, attempt,
                   halted, nacc, tickVars, foreign, rr, boot, cdata>>
    /\ io' = Io({})

\* rauc_install() with wait: join the install thread, read its result (the
\* worker's return value) and free its context
DlWaitInstall ==
    /\ halted = "no" /\ dlpc = "wait_install"
    /\ instpc = "done"
    /\ IF ContextFreeOk(ictx)
       THEN /\ dlpc' = "exit"
            /\ dlret' = WaitResult(ictx)
            /\ dlArt' = ictx.art
            /\ ictx' = NoCtx
            /\ UNCHANGED halted
       ELSE halted' = "aborted" /\ UNCHANGED <<dlpc, dlArt, dlret, ictx>>
    /\ acc' = Acc({})
    /\ UNCHANGED <<cfg, actionVars, mutex, signaled, file, pollVars, sha1sum,
                   attempt, instpc, nacc, tickVars, foreign, rr, boot, cdata>>
    /\ io' = Io({})

\* label report_err: failure/closed feedback, state ERROR, then label cancel
DlReportErr ==
    /\ halted = "no" /\ dlpc \in {"err_download", "err_checksum"} /\ mutex = "free"
    /\ dlArt' = [feedback(dlArt, id, "failure", "closed", dlpc) EXCEPT !.end = "error"]
    /\ DlCancel(ACTION_STATE_ERROR)
    /\ acc' = Acc(Reads({"id", "state"}, "worker") \cup Writes({"state"}, "worker"))
    /\ UNCHANGED <<cfg, id, mutex, pollVars, instVars, halted, nacc, tickVars, foreign, rr, boot, cdata>>
    /\ io' = Io({Call("feedback", "worker", TRUE)})

\* download_thread returns: the artifact and sha1sum are freed (in run_once
\* mode its history is kept for the join at label out)
DlReturn ==
    /\ halted = "no" /\ dlpc = "exit"
    /\ dlpc' = "done"
    /\ dlArt' = IF cfg.once THEN dlArt ELSE NoArt
    /\ acc' = Acc({})
    /\ UNCHANGED <<cfg, actionVars, mutex, signaled, file, pollVars, sha1sum, dlret,
                   attempt, instVars, halted, nacc, tickVars, foreign, rr, boot, cdata>>
    /\ io' = Io({})

(* ------------------------------------------------------------------------ *)
(* Install thread: install_loop_thread() and the callbacks it runs          *)
(* ------------------------------------------------------------------------ *)
\* Variant of the start below: a failed start skips the completion callback.
AfterStartSkip(ok) == IF ok THEN "loop" ELSE "exit"

\* install_loop_thread() up to g_main_loop_run: when the proxy cannot be
\* created or the InstallBundle call is rejected, on to label notify_complete
\* (directly or over out_loop)
AfterStart(ok) == IF ok THEN "loop" ELSE "notify"

\* proxy creation and the InstallBundle call; either may fail
InstStart ==
    /\ halted = "no" /\ instpc = "start"
    /\ \E ok \in BOOLEAN : instpc' = AfterStart(ok)
    /\ acc' = Acc({})
    /\ UNCHANGED <<cfg, actionVars, mutex, signaled, file, pollVars, dlVars, ictx,
                   halted, nacc, tickVars, foreign, rr, boot, cdata>>
    /\ io' = Io({Call("install_bundle", "install", FALSE)})

\* g_queue_push_tail(&context->status_messages, msg)
g_queue_push_tail(q, msg) == Append(q, msg)

\* g_queue_pop_head(&context->status_messages)
g_queue_pop_head(q) == [msg |-> Head(q), queue |-> Tail(q)]

\* Variant of the call below: the message is not passed on.
NotifyNone(h, msg) == h

\* notify_hawkbit_install_progress(msg): h is the history of the calls
notify_hawkbit_install_progress(h, msg) == Append(h, msg)

\* on_installer_status(): a changed property is queued (the k-th event's
\* message is k) and the notifier is invoked on the thread's own context,
\* which the thread owns: it runs at once
InstStatus ==
    /\ halted = "no" /\ instpc = "loop" /\ ictx.left > 0
    /\ LET msg == Len(ictx.pushed) + 1 IN
       ictx' = [ictx EXCEPT !.queue = g_queue_push_tail(@, msg),
                            !.pushed = Append(@, msg),
                            !.left = @ - 1]
    /\ instpc' = "drain"
    /\ acc' = Acc({})
    /\ UNCHANGED <<cfg, actionVars, mutex, signaled, file, pollVars, dlVars, halted,
                   nacc, tickVars, foreign, rr, boot, cdata>>
    /\ io' = Io({})

\* on_rauc_install_progress_cb(): pop the head, hawkbit_progress(msg)
InstDrain ==
    /\ halted = "no" /\ instpc = "drain" /\ mutex = "free"
    /\ ictx.queue # <<>>
    /\ LET head == g_queue_pop_head(ictx.queue) IN
       /\ ictx' = [ictx EXCEPT !.queue = head.queue,
                               !.popped = notify_hawkbit_install_progress(@, head.msg),
                               !.art = feedback_progress(@, id, "progress")]
       /\ instpc' = IF head.queue = <<>> THEN "loop" ELSE "drain"
    /\ acc' = Acc(Reads({"id"}, "install"))
    /\ UNCHANGED <<cfg, actionVars, mutex, signaled, file, pollVars, dlVars, halted,
                   nacc, tickVars, foreign, rr, boot, cdata>>
    /\ io' = Io({Call("feedback", "install", TRUE)})

\* on_installer_status() with invalidated properties: the executor is gone
InstVanish ==
    /\ halted = "no" /\ instpc = "loop"
    /\ ictx' = [ictx EXCEPT !.status_result = 2]
    /\ instpc' = "notify"
    /\ acc' = Acc({})
    /\ UNCHANGED <<cfg, actionVars, mutex, signaled, file, pollVars, dlVars, halted,
                   nacc, tickVars, foreign, rr, boot, cdata>>
    /\ io' = Io({})

\* Variant of the condition below: every result quits the loop.
LoopQuitsAlways(result) == TRUE

\* on_installer_completed(): g_main_loop_quit only for result >= 0
LoopQuits(result) == result >= 0

\* The exit values the executor's completed signal is followed with.
ExitValues == {-1, 0, 1}

\* on_installer_completed(result): the result is stored, the loop quits only
\* for result >= 0
InstCompleted ==
    /\ halted = "no" /\ instpc = "loop"
    /\ \E result \in ExitValues :
        /\ ictx' = [ictx EXCEPT !.status_result = result]
        /\ instpc' = IF LoopQuits(result) THEN "notify" ELSE "loop"
    /\ acc' = Acc({})
    /\ UNCHANGED <<cfg, actionVars, mutex, signaled, file, pollVars, dlVars, halted,
                   nacc, tickVars, foreign, rr, boot, cdata>>
    /\ io' = Io({})

\* Variant of the result below: every status that ends the loop is a success.
InstallSuccessAny(c) == c.status_result >= 0

\* on_rauc_install_complete_cb(): install_success
InstallSuccess(c) == c.status_result = 0

\* Variant of the state below: a failed install leaves INSTALLING.
CompleteStateFailedStays(ok) ==
    IF ok THEN ACTION_STATE_SUCCESS ELSE ACTION_STATE_INSTALLING

\* "active_action->state = result->install_success ? ACTION_STATE_SUCCESS :
\* ACTION_STATE_ERROR"
CompleteState(ok) == IF ok THEN ACTION_STATE_SUCCESS ELSE ACTION_STATE_ERROR

\* install_complete_cb(): state, terminal feedback, cleanup, unlock, and the
\* reboot after a successful install if configured (reboot() may fail).
InstNotify ==
    /\ halted = "no" /\ instpc = "notify" /\ mutex = "free"
    /\ LET ok == InstallSuccess(ictx) IN
       /\ state' = CompleteState(ok)
       /\ ictx' = [ictx EXCEPT !.art =
                     [feedback(@, id, IF ok THEN "success" ELSE "failure", "closed",
                               IF ok THEN "installed" ELSE "install_failed")
                        EXCEPT !.end = IF ok THEN "installed" ELSE "failed"]]
       /\ file' = process_deployment_cleanup(file)
       /\ instpc' = "exit"
       /\ \/ ok /\ cfg.reboot /\ halted' = "rebooted"
          \/ UNCHANGED halted
    /\ acc' = Acc(Reads({"id"}, "install") \cup Writes({"state"}, "install"))
    /\ UNCHANGED <<cfg, id, mutex, signaled, pollVars, dlVars, nacc, tickVars, foreign, rr, boot, cdata>>
    /\ io' = Io({Call("feedback", "install", TRUE)})

\* the end of install_loop_thread: the context is freed unless the caller
\* waits for it
InstReturn ==
    /\ halted = "no" /\ instpc = "exit"
    /\ IF ictx.keep
       THEN instpc' = "done" /\ UNCHANGED <<ictx, halted>>
       ELSE IF ContextFreeOk(ictx)
       THEN instpc' = "done" /\ ictx' = NoCtx /\ UNCHANGED halted
       ELSE halted' = "aborted" /\ UNCHANGED <<instpc, ictx>>
    /\ acc' = Acc({})
    /\ UNCHANGED <<cfg, actionVars, mutex, signaled, file, pollVars, dlVars,
                   nacc, tickVars, foreign, rr, boot, cdata>>
    /\ io' = Io({})

(* ------------------------------------------------------------------------ *)
(* The client state machine                                                 *)
(* ------------------------------------------------------------------------ *)
Next ==
    \/ PullStart
    \/ ProcessDeployment
    \/ PdSpawn
    \/ PdStreamCb
    \/ PdStreamJoin
    \/ PdStreamRet
    \/ ProcessCancel
    \/ PcWake
    \/ PcWakeSpurious
    \/ Out
    \/ DlEntry
    \/ DlGetBinary
    \/ DlResumeCheck
    \/ DlComplete
    \/ DlPost
    \/ DlLast
    \/ DlInstall
    \/ DlWaitInstall
    \/ DlReportErr
    \/ DlReturn
    \/ InstStart
    \/ InstStatus
    \/ InstDrain
    \/ InstVanish
    \/ InstCompleted
    \/ InstNotify
    \/ InstReturn

Spec == Init /\ [][Next]_vars

\* The client with the network and bus calls of every step followed.
InitIo ==
    /\ cfg \in Configs
    /\ InitClient
    /\ rr = RrIdle
    /\ boot = NoBoot
    /\ cdata = NoTimer
    /\ io = {}
    /\ acc = NoAcc

SpecIo == InitIo /\ [][Next]_vars

\* The client with the accesses of the action's state and id followed.
InitAcc ==
    /\ cfg \in Configs
    /\ InitClient
    /\ rr = RrIdle
    /\ boot = NoBoot
    /\ cdata = NoTimer
    /\ io = Untraced
    /\ acc = {}

SpecAcc == InitAcc /\ [][Next]_vars

(* ------------------------------------------------------------------------ *)
(* rest_request_retriable()                                                 *)
(* ------------------------------------------------------------------------ *)
\* What one rest_request() can end in: success (HTTP 200 and a parsable
\* body), an HTTP error status, a libcurl error, a JSON parse error.
Outcomes == {"ok", "http409", "http429", "http404", "http500", "curl", "json"}

\* Variant of the retry condition: the retry count is not limited.
RetryUnlimited(o, retry_count) == o \in {"http409", "http429"}

\* retry = (HTTP error 409 or 429) && retry_count < MAX_RETRIES_ON_API_ERROR
Retry(o, retry_count) ==
    /\ o \in {"http409", "http429"}
    /\ retry_count < MAX_RETRIES_ON_API_ERROR

coreVars == <<cfg, state, id, mutex, signaled, file, pollpc, cancelLink, res,
              stop_id, pArt, resp, dlpc, dlArt, sha1sum, dlret, attempt, instpc, ictx,
              halted, nacc, tick, swst, crFrom, canFb, foreign>>

clientVars == <<coreVars, boot, cdata, io, acc>>

InitRetry ==
    /\ cfg \in Configs
    /\ InitClient
    /\ boot = NoBoot
    /\ cdata = NoTimer
    /\ io = Untraced
    /\ acc = NoAcc
    /\ \E m \in {"GET", "PUT", "POST"} :
         rr = [RrIdle EXCEPT !.pc = "request", !.method = m]

\* res = rest_request(...); retry = ...; if (!retry) break;
RrRequest ==
    /\ rr.pc = "request"
    /\ \E o \in Outcomes :
         rr' = [rr EXCEPT !.requests = @ + 1,
                          !.last = o,
                          !.res = (o = "ok"),
                          !.pc = IF Retry(o, rr.retry_count) THEN "sleep" ELSE "done"]
    /\ UNCHANGED clientVars

\* g_usleep(1000000); retry_count++;
RrSleep ==
    /\ rr.pc = "sleep"
    /\ rr' = [rr EXCEPT !.slept = @ + RetrySleepMs,
                        !.retry_count = @ + 1,
                        !.pc = "request"]
    /\ UNCHANGED clientVars

NextRetry ==
    \/ RrRequest
    \/ RrSleep

SpecRetry == InitRetry /\ [][NextRetry]_vars


(* ------------------------------------------------------------------------ *)
(* The download loop under every error get_binary() can return              *)
(* ------------------------------------------------------------------------ *)
DownloadConfigs ==
    {[resume |-> r, stream |-> FALSE, reboot |-> FALSE, once |-> FALSE,
      errors |-> DownloadErrors, retry_wait |-> DEFAULT_RETRY_WAIT] : r \in BOOLEAN}

\* process_deployment has spawned the worker for deployment 1 (to install or
\* to download only) and hawkbit_pull_cb goes on to the cancel link, if the
\* base resource has one, or to the sleep time.
InitDownload ==
    /\ cfg \in DownloadConfigs
    /\ state = ACTION_STATE_PROCESSING
    /\ id = 1
    /\ mutex = "free"
    /\ signaled = FALSE
    /\ file = NoFile
    /\ \E can \in BOOLEAN : cancelLink = can /\ pollpc = AfterDeployment(can)
    /\ res = FALSE
    /\ stop_id = 0
    /\ pArt = NoArt
    /\ resp = NoResp
    /\ dlpc = "start"
    /\ \E u \in {"attempt", "skip"} :
         dlArt = ArtifactOf([DefaultResponse EXCEPT !.update = u])
    /\ sha1sum = 0
    /\ dlret = FALSE
    /\ attempt = NoAttempt
    /\ instpc = "none"
    /\ ictx = NoCtx
    /\ halted = "no"
    /\ nacc = 1
    /\ tick = {"base", "deployment"}
    /\ swst = -1
    /\ crFrom = -1
    /\ canFb = <<>>
    /\ foreign = FALSE
    /\ rr = RrIdle
    /\ boot = NoBoot
    /\ cdata = NoTimer
    /\ io = Untraced
    /\ acc = NoAcc

NextDownload ==
    \/ ProcessCancel
    \/ PcWake
    \/ DlEntry
    \/ DlGetBinary
    \/ DlResumeCheck
    \/ DlComplete
    \/ DlPost
    \/ DlLast
    \/ DlReportErr
    \/ DlReturn

SpecDownload == InitDownload /\ [][NextDownload]_vars


(* ------------------------------------------------------------------------ *)
(* Deployments that follow a first one whose worker is still running        *)
(* ------------------------------------------------------------------------ *)
\* the configuration of Configs that downloads to a file in service mode with
\* resume_downloads on
ResumeConfigs == {c \in Configs : ~c.stream /\ ~c.once /\ c.resume}

\* process_deployment has spawned the worker for the download-only deployment
\* 1 and hawkbit_pull_cb goes on to the cancel link, if the base resource has
\* one, or to the sleep time; the server has MaxAccept further deployments.
InitResume ==
    /\ cfg \in ResumeConfigs
    /\ state = ACTION_STATE_PROCESSING
    /\ id = 1
    /\ mutex = "free"
    /\ signaled = FALSE
    /\ file = NoFile
    /\ \E can \in BOOLEAN : cancelLink = can /\ pollpc = AfterDeployment(can)
    /\ res = FALSE
    /\ stop_id = 0
    /\ pArt = NoArt
    /\ resp = NoResp
    /\ dlpc = "start"
    /\ dlArt = ArtifactOf([DefaultResponse EXCEPT !.update = "skip"])
    /\ sha1sum = 0
    /\ dlret = FALSE
    /\ attempt = NoAttempt
    /\ instpc = "none"
    /\ ictx = NoCtx
    /\ halted = "no"
    /\ nacc = 0
    /\ tick = {"base", "deployment"}
    /\ swst = -1
    /\ crFrom = -1
    /\ canFb = <<>>
    /\ foreign = FALSE
    /\ rr = RrIdle
    /\ boot = NoBoot
    /\ cdata = NoTimer
    /\ io = Untraced
    /\ acc = NoAcc

NextResume ==
    \/ PullStart
    \/ ProcessDeployment
    \/ PdSpawn
    \/ ProcessCancel
    \/ PcWake
    \/ PcWakeSpurious
    \/ Out
    \/ DlEntry
    \/ DlGetBinary
    \/ DlResumeCheck
    \/ DlComplete
    \/ DlPost
    \/ DlLast
    \/ DlInstall
    \/ DlReportErr
    \/ DlReturn
    \/ InstStart
    \/ InstStatus
    \/ InstDrain
    \/ InstVanish
    \/ InstCompleted
    \/ InstNotify
    \/ InstReturn

SpecResume == InitResume /\ [][NextResume]_vars




(* ------------------------------------------------------------------------ *)
(* Start-up: main() and load_config_file()                                  *)
(* ------------------------------------------------------------------------ *)
\* What a configuration file can look like: whether it can be read, which of
\* hawkbit_server, auth_token and gateway_token it has, whether it has the
\* other keys without default (target_name, bundle_download_location),
\* whether its boolean and integer keys are well-typed, its timeout and
\* connect_timeout, whether it has the [device] group.
ConfFiles ==
    [readable : BOOLEAN, hawkbit_server : BOOLEAN, auth_token : BOOLEAN,
     gateway_token : BOOLEAN, required : BOOLEAN, typed : BOOLEAN,
     timeout : 0..MaxTimeout, connect_timeout : 0..MaxTimeout, device : BOOLEAN]

\* The command line and the file system main() meets: config_file is "none"
\* (no -c), "missing" (no such file) or "present".
StartArgs ==
    [parse_ok : BOOLEAN, opt_version : BOOLEAN,
     config_file : {"none", "missing", "present"}, conf : ConfFiles]

\* Variant of the token check below: both tokens are accepted.
TokensOkBoth(auth, gateway) == auth \/ gateway

\* exactly one of auth_token and gateway_token is set
TokensOk(auth, gateway) ==
    /\ ~(~auth /\ ~gateway)
    /\ ~(auth /\ gateway)

\* load_config_file() returns a Config (TRUE) or NULL with the error set
load_config_file(c) ==
    IF ~c.readable THEN FALSE
    ELSE IF ~c.hawkbit_server THEN FALSE
    ELSE IF ~TokensOk(c.auth_token, c.gateway_token) THEN FALSE
    ELSE IF ~c.required THEN FALSE
    ELSE IF ~c.typed THEN FALSE
    ELSE IF c.timeout > 0 /\ c.connect_timeout > 0 /\ c.timeout < c.connect_timeout
    THEN FALSE
    ELSE c.device

\* main(): the exit code, or the start of the service
main(a) ==
    IF ~a.parse_ok THEN [service |-> FALSE, code |-> 1]
    ELSE IF a.opt_version THEN [service |-> FALSE, code |-> 0]
    ELSE IF a.config_file = "none" THEN [service |-> FALSE, code |-> 2]
    ELSE IF a.config_file = "missing" THEN [service |-> FALSE, code |-> 3]
    ELSE IF ~load_config_file(a.conf) THEN [service |-> FALSE, code |-> 4]
    ELSE [service |-> TRUE, code |-> 0]

InitStartup ==
    /\ cfg \in Configs
    /\ InitClient
    /\ rr = RrIdle
    /\ cdata = NoTimer
    /\ io = Untraced
    /\ acc = NoAcc
    /\ \E a \in StartArgs : boot = [pc |-> "main", args |-> a, code |-> 0]

\* main() up to its return or to hawkbit_start_service_sync()
Main ==
    /\ boot.pc = "main"
    /\ LET r == main(boot.args) IN
       boot' = [boot EXCEPT !.pc = IF r.service THEN "service" ELSE "exited",
                            !.code = r.code]
    /\ UNCHANGED <<coreVars, rr, cdata, io, acc>>

NextStartup == Main

SpecStartup == InitStartup /\ [][NextStartup]_vars


(* ------------------------------------------------------------------------ *)
(* The timer of hawkbit_start_service_sync()                                *)
(* ------------------------------------------------------------------------ *)
\* Service mode, download to a file; retry_wait is 0 or MaxRetryWait.
TimerConfigs ==
    {[resume |-> TRUE, stream |-> FALSE, reboot |-> FALSE, once |-> FALSE,
      errors |-> SomeErrors, retry_wait |-> w] : w \in {0, MaxRetryWait}}

\* hawkbit_start_service_sync(): both counters start at retry_wait and the
\* timeout source calls hawkbit_pull_cb every second.
InitTimer ==
    /\ cfg \in TimerConfigs
    /\ state = ACTION_STATE_NONE /\ id = 0
    /\ mutex = "free" /\ signaled = FALSE /\ file = NoFile
    /\ pollpc = "timer" /\ cancelLink = FALSE /\ res = FALSE /\ stop_id = 0
    /\ pArt = NoArt /\ resp = NoResp
    /\ dlpc = "none" /\ dlArt = NoArt /\ sha1sum = 0 /\ dlret = FALSE
    /\ attempt = NoAttempt
    /\ instpc = "none" /\ ictx = NoCtx
    /\ halted = "no" /\ nacc = MaxAccept - 1
    /\ tick = {} /\ swst = -1 /\ crFrom = -1 /\ canFb = <<>> /\ foreign = FALSE
    /\ rr = RrIdle /\ boot = NoBoot /\ io = Untraced /\ acc = NoAcc
    /\ cdata = [NoTimer EXCEPT !.on = TRUE, !.last_run_sec = cfg.retry_wait,
                               !.hawkbit_interval_check_sec = cfg.retry_wait]

\* Variant of the condition below: the counter must exceed the interval.
DueAfter(c) == c.last_run_sec + 1 > c.hawkbit_interval_check_sec

\* "if (++data->last_run_sec < data->hawkbit_interval_check_sec) return": the
\* negation, read after the increment
Due(c) == ~(c.last_run_sec + 1 < c.hawkbit_interval_check_sec)

\* One call of hawkbit_pull_cb by the timeout source, up to its early return
\* or to the reset of the counter before the GET of the base resource.  gap
\* counts the calls since the last GET of the base resource.
TimerTick ==
    /\ halted = "no" /\ pollpc = "timer" /\ cdata.on
    /\ IF Due(cdata)
       THEN /\ cdata' = [cdata EXCEPT !.last_run_sec = 0, !.gap = @ + 1]
            /\ pollpc' = "idle"
       ELSE /\ cdata' = [cdata EXCEPT !.last_run_sec = @ + 1, !.gap = @ + 1]
            /\ UNCHANGED pollpc
    /\ acc' = Acc({})
    /\ UNCHANGED <<cfg, actionVars, mutex, signaled, file, cancelLink, res, stop_id, pArt,
                   resp, dlVars, instVars, halted, nacc, tickVars, foreign, rr, boot>>
    /\ io' = Io({})

NextTimer ==
    \/ TimerTick
    \/ PullStart
    \/ ProcessDeployment
    \/ PdSpawn
    \/ ProcessCancel
    \/ PcWake
    \/ PcWakeSpurious
    \/ Out
    \/ DlEntry
    \/ DlGetBinary
    \/ DlResumeCheck
    \/ DlComplete
    \/ DlPost
    \/ DlLast
    \/ DlInstall
    \/ DlReportErr
    \/ DlReturn
    \/ InstStart
    \/ InstStatus
    \/ InstDrain
    \/ InstVanish
    \/ InstCompleted
    \/ InstNotify
    \/ InstReturn

SpecTimer == InitTimer /\ [][NextTimer]_vars


(* ------------------------------------------------------------------------ *)
(* One install with several progress events                                 *)
(* ------------------------------------------------------------------------ *)
\* download_thread has called software_ready_cb for deployment 1 (service
\* mode, download to a file): the install thread starts; the executor will
\* emit up to MaxQueued property changes.
InitQueue ==
    /\ cfg \in {c \in Configs : ~c.once /\ ~c.stream}
    /\ state = ACTION_STATE_INSTALLING /\ id = 1
    /\ mutex = "free" /\ signaled = FALSE
    /\ file = [exists |-> TRUE, data |-> Content(1)]
    /\ pollpc = "idle" /\ cancelLink = FALSE /\ res = FALSE /\ stop_id = 0
    /\ pArt = NoArt /\ resp = NoResp
    /\ dlpc = "exit" /\ sha1sum = 0 /\ dlret = FALSE /\ attempt = NoAttempt
    /\ instpc = "start"
    /\ LET art == feedback_progress(
                     feedback_progress(ArtifactOf(DefaultResponse), 1, "dlcomplete"),
                     1, "cksum") IN
       /\ dlArt = [art EXCEPT !.handed = TRUE, !.end = "handed"]
       /\ ictx = [on_new_software_ready_cb(art, Userdata(FALSE), FALSE)
                    EXCEPT !.left = MaxQueued]
    /\ halted = "no" /\ nacc = 1
    /\ tick = {} /\ swst = -1 /\ crFrom = -1 /\ canFb = <<>> /\ foreign = FALSE
    /\ rr = RrIdle /\ boot = NoBoot /\ cdata = NoTimer /\ io = Untraced /\ acc = NoAcc

NextQueue ==
    \/ DlReturn
    \/ InstStart
    \/ InstStatus
    \/ InstDrain
    \/ InstVanish
    \/ InstCompleted
    \/ InstNotify
    \/ InstReturn

SpecQueue == InitQueue /\ [][NextQueue]_vars
(* ------------------------------------------------------------------------ *)
(* Properties                                                               *)
(* ------------------------------------------------------------------------ *)
\* The deployments whose history is on record: the one process_deployment has
\* just refused, the worker's, the install thread's.
Deployments == {pArt, dlArt, ictx.art}

InFlightEnds == {"none", "handed"}

CancelStep ==
    /\ pollpc \in {"pc_lock", "pc_wait"}
    /\ pollpc' \in {"pc_wait", "sleeptime"}
    /\ pollpc' # pollpc
    /\ stop_id' # 0

\* the cancel feedbacks the server can receive for stopId stop
Rejected(stop) == [stop |-> stop, fin |-> "success", exec |-> "rejected"]
Closed(stop) == [stop |-> stop, fin |-> "success", exec |-> "closed"]

(* C2: when process_cancel handles a stopId equal to the active id while the *)
(* state is INSTALLING it sends success/rejected, the state stays            *)
(* INSTALLING and the install thread is left alone; INSTALLING is left only  *)
(* by install_complete_cb (to SUCCESS or ERROR) or by a cancel for another   *)
(* stopId.                                                                   *)
C2_InstallingRejects ==
    [][/\ (CancelStep /\ stop_id' = id /\ state = ACTION_STATE_INSTALLING) =>
            /\ canFb' = Append(canFb, Rejected(id))
            /\ state' = ACTION_STATE_INSTALLING
            /\ pollpc' = "sleeptime"
            /\ UNCHANGED <<instpc, ictx, dlpc, dlArt, file, halted>>
       /\ (state = ACTION_STATE_INSTALLING /\ state' # ACTION_STATE_INSTALLING) =>
            \/ /\ instpc = "notify" /\ instpc' = "exit"
               /\ state' \in {ACTION_STATE_SUCCESS, ACTION_STATE_ERROR}
            \/ /\ CancelStep /\ stop_id' # id
               /\ state' = ACTION_STATE_NONE
      ]_vars

C2_Witness ==
    /\ pollpc = "sleeptime"
    /\ stop_id = id
    /\ swst = ACTION_STATE_INSTALLING
    /\ state = ACTION_STATE_INSTALLING
    /\ canFb = <<Rejected(id)>>
    /\ instpc = "loop"

\* process_cancel has returned after fetching a stopId
CancelReturned == pollpc \in {"sleeptime", "exited"} /\ stop_id # 0

(* C3, as the code has it: when process_cancel returns after fetching stopId *)
(* I it has sent exactly one cancel feedback for I, success/closed if the    *)
(* action was canceled, is unknown (I is not the active id) or idle, and     *)
(* success/rejected if it is installing, except that it has sent none when   *)
(* the action with id I has already ended in SUCCESS or ERROR; never two.    *)
C3_CancelFeedback ==
    CancelReturned =>
        /\ swst \in {ACTION_STATE_NONE, ACTION_STATE_CANCELED, ACTION_STATE_SUCCESS,
                     ACTION_STATE_ERROR, ACTION_STATE_INSTALLING}
        /\ stop_id # id => swst = ACTION_STATE_NONE
        /\ swst \in {ACTION_STATE_NONE, ACTION_STATE_CANCELED} =>
             canFb = <<Closed(stop_id)>>
        /\ swst = ACTION_STATE_INSTALLING => canFb = <<Rejected(stop_id)>>
        /\ swst \in {ACTION_STATE_SUCCESS, ACTION_STATE_ERROR} => canFb = <<>>

\* a cancel for an action that has succeeded already: no feedback
C3_Witness ==
    /\ pollpc = "sleeptime"
    /\ stop_id = id
    /\ swst = ACTION_STATE_SUCCESS
    /\ canFb = <<>>

\* C3 as stated: exactly one cancel feedback for every fetched cancelAction
C3_ExactlyOne == CancelReturned => Len(canFb) = 1

(* C4 as stated, in the form a finite run refutes: a step of the download    *)
(* worker that moves the state out of CANCEL_REQUESTED while process_cancel  *)
(* waits signals the condition variable.                                     *)
C4_WorkerSignals ==
    [][(pollpc = "pc_wait" /\ dlpc' # dlpc /\ state = ACTION_STATE_CANCEL_REQUESTED
        /\ state' # ACTION_STATE_CANCEL_REQUESTED) => signaled']_vars

\* process_cancel waits, the download-only worker has set SUCCESS and
\* returned, and no signal was sent
C4_Witness ==
    /\ pollpc = "pc_wait"
    /\ ~signaled
    /\ state = ACTION_STATE_SUCCESS
    /\ dlpc = "done"
    /\ instpc = "none"

(* C5: while the state is INSTALLING, SUCCESS or ERROR a cancel whose stopId *)
(* equals the active id leaves the state as it is (never CANCEL_REQUESTED or *)
(* CANCELED), does not wait, and sends no success/closed feedback.           *)
C5_NoCancelOnceInstalling ==
    [][(/\ CancelStep /\ stop_id' = id
        /\ state \in {ACTION_STATE_INSTALLING, ACTION_STATE_SUCCESS, ACTION_STATE_ERROR}) =>
            /\ state' = state
            /\ pollpc' = "sleeptime"
            /\ \A k \in 1..Len(canFb') : canFb'[k].exec # "closed"
      ]_vars

C5_Witness ==
    /\ pollpc = "sleeptime"
    /\ stop_id = id
    /\ swst = ACTION_STATE_ERROR
    /\ state = ACTION_STATE_ERROR
    /\ canFb = <<>>
    /\ crFrom = -1

(* C6: in staged mode the install thread is started for a deployment only    *)
(* by the worker and only with the sha1 computed over the whole downloaded   *)
(* file equal to the artifact's sha1; on a mismatch the worker goes to       *)
(* report_err, where it sends failure/closed, sets ERROR, removes the file   *)
(* and returns without invoking the install driver.                          *)
C6_ChecksumGuardsInstall ==
    [][/\ (dlpc = "loop" /\ dlpc' = "complete") =>
            file'.exists /\ sha1sum' = Sha1(file'.data)
       /\ (dlpc = "complete" /\ dlpc' # "complete") =>
            /\ sha1sum' = sha1sum
            /\ dlpc' = IF sha1sum = dlArt.sha1 THEN "post" ELSE "err_checksum"
       /\ (~cfg.stream /\ instpc # "start" /\ instpc' = "start") =>
            /\ dlpc = "install"
            /\ sha1sum = dlArt.sha1
            /\ ictx'.art.id = dlArt.id
       /\ (dlpc = "err_checksum" /\ dlpc' # dlpc) =>
            /\ dlArt'.last = [fin |-> "failure", exec |-> "closed", det |-> "err_checksum"]
            /\ dlArt'.term = dlArt.term + 1
            /\ ~dlArt'.handed
            /\ state' = ACTION_STATE_ERROR
            /\ ~file'.exists
            /\ dlpc' = "exit"
            /\ UNCHANGED <<instpc, ictx>>
      ]_vars

\* the worker has left through report_err after a checksum mismatch
C6_Witness ==
    /\ dlpc = "exit"
    /\ dlArt.last.det = "err_checksum"
    /\ dlArt.sha1 = WrongSha1
    /\ state = ACTION_STATE_ERROR
    /\ ~file.exists
    /\ instpc = "none"

(* C7: process_deployment entered with state >= PROCESSING returns the       *)
(* already-in-progress error: it sends no GET and no feedback, starts no     *)
(* worker and no install, and leaves state, id and the bundle file as they   *)
(* are.                                                                      *)
C7_AlreadyInProgress ==
    [][(pollpc = "pd_lock" /\ pollpc' # "pd_lock" /\ state >= ACTION_STATE_PROCESSING) =>
            /\ tick' = tick \cup {"busy"}
            /\ "deployment" \notin tick'
            /\ res' = FALSE
            /\ pollpc' \in {"pc_lock", "sleeptime"}
            /\ UNCHANGED <<state, id, file, pArt, dlpc, dlArt, instpc, ictx, nacc, mutex>>
      ]_vars

\* a deployment was offered while the worker downloads
C7_Witness ==
    /\ "busy" \in tick
    /\ "deployment" \notin tick
    /\ state = ACTION_STATE_DOWNLOADING
    /\ pollpc = "sleeptime"
    /\ dlpc = "loop"

C9_RetryLoop ==
    rr.pc # "off" =>
        /\ rr.retry_count <= 10
        /\ rr.requests <= 11
        /\ rr.requests = rr.retry_count + (IF rr.pc = "request" THEN 0 ELSE 1)
        /\ rr.slept >= 1000 * rr.retry_count
        /\ rr.pc = "sleep" => rr.last \in {"http409", "http429"}
        /\ (rr.pc = "request" /\ rr.retry_count > 0) => rr.last \in {"http409", "http429"}
        /\ rr.last \notin {"none", "http409", "http429"} => rr.pc = "done"
        /\ rr.pc = "done" =>
             /\ rr.last \notin {"http409", "http429"} \/ rr.retry_count = 10
             /\ rr.res = (rr.last = "ok")
        /\ rr.pc = "done" \/ ENABLED NextRetry

\* the eleventh request was answered with 429: the loop gives up
C9_Witness ==
    /\ rr.pc = "done"
    /\ rr.requests = 11
    /\ rr.retry_count = 10
    /\ rr.last = "http429"
    /\ rr.slept = 10000

(* C10, as the code has it: after a successful checksum with do_install =    *)
(* false, if the maintenance window is absent or "available" the worker sets *)
(* SUCCESS, sends exactly one feedback, success/downloaded, keeps the file   *)
(* and invokes neither the install driver nor a reboot; otherwise it sends   *)
(* the progress feedback "File checksum OK." and then, at the last cancel    *)
(* checkpoint, sets NONE and keeps the file, unless a cancel is requested:   *)
(* then it sets CANCELED and removes the file; neither sends a terminal      *)
(* feedback.                                                                 *)
C10_DownloadOnly ==
    [][/\ (/\ dlpc = "post" /\ dlpc' # "post" /\ ~dlArt.do_install
           /\ dlArt.mw \in {"null", "available"}) =>
            /\ state' = ACTION_STATE_SUCCESS
            /\ dlArt'.n = dlArt.n + 1
            /\ dlArt'.last = [fin |-> "success", exec |-> "downloaded", det |-> "cksum"]
            /\ dlArt'.term = dlArt.term
            /\ file' = file
            /\ dlpc' = "exit"
            /\ UNCHANGED <<instpc, ictx, halted>>
       /\ (/\ dlpc = "post" /\ dlpc' # "post" /\ ~dlArt.do_install
           /\ dlArt.mw \notin {"null", "available"}) =>
            /\ state' = state
            /\ dlArt'.n = dlArt.n + 1
            /\ dlArt'.last = [fin |-> "none", exec |-> "proceeding", det |-> "cksum"]
            /\ file' = file
            /\ dlpc' = "last"
            /\ UNCHANGED <<instpc, ictx, halted>>
       /\ (dlpc = "last" /\ dlpc' # "last" /\ ~dlArt.do_install) =>
            /\ IF state = ACTION_STATE_CANCEL_REQUESTED
               THEN state' = ACTION_STATE_CANCELED /\ ~file'.exists
               ELSE state' = ACTION_STATE_NONE /\ file' = file
            /\ dlArt'.n = dlArt.n
            /\ dlArt'.term = 0
            /\ dlpc' = "exit"
            /\ UNCHANGED <<instpc, ictx, halted>>
      ]_vars

\* the download-only worker has reported success/downloaded and kept the file
C10_Witness ==
    /\ dlpc = "exit"
    /\ dlArt.end = "downloaded"
    /\ dlArt.n = 2
    /\ state = ACTION_STATE_SUCCESS
    /\ file.exists
    /\ instpc = "none"

\* C10 as stated: every other do_install = false case ends in state NONE with
\* the file kept.
C10_OtherwiseNone ==
    [][(/\ dlpc = "last" /\ dlpc' # "last" /\ ~dlArt.do_install) =>
            /\ state' = ACTION_STATE_NONE
            /\ file' = file
      ]_vars


(* C11, as the code has it: a failed download attempt leads to the resume    *)
(* check if and only if resume_downloads is set and the error is a libcurl   *)
(* error with one of the eight resumable codes, and to report_err otherwise. *)
(* From the resume check the worker sleeps 500 ms and makes another attempt, *)
(* unless a cancel has been requested: then it sets CANCELED and ends        *)
(* without a feedback and without another attempt.  At report_err it sends   *)
(* failure/closed, sets ERROR and ends.  An attempt is made only on entry    *)
(* and after the resume check.                                               *)
C11_ResumeDecision ==
    [][/\ (dlpc = "loop" /\ attempt'.error # NoError) =>
            dlpc' = IF /\ cfg.resume
                       /\ attempt'.error.domain = "curl"
                       /\ attempt'.error.code \in
                            {"CURLE_OPERATION_TIMEDOUT", "CURLE_COULDNT_RESOLVE_HOST",
                             "CURLE_COULDNT_CONNECT", "CURLE_PARTIAL_FILE",
                             "CURLE_SEND_ERROR", "CURLE_RECV_ERROR", "CURLE_HTTP2",
                             "CURLE_HTTP2_STREAM"}
                    THEN "resume_check" ELSE "err_download"
       /\ (dlpc = "resume_check" /\ dlpc' # dlpc) =>
            IF state = ACTION_STATE_CANCEL_REQUESTED
            THEN /\ dlpc' = "exit"
                 /\ state' = ACTION_STATE_CANCELED
                 /\ dlArt'.n = dlArt.n
                 /\ dlArt'.end = "canceled"
            ELSE /\ dlpc' = "loop"
                 /\ attempt'.slept >= 500
                 /\ UNCHANGED <<state, dlArt>>
       /\ (dlpc = "err_download" /\ dlpc' # dlpc) =>
            /\ dlpc' = "exit"
            /\ state' = ACTION_STATE_ERROR
            /\ dlArt'.n = dlArt.n + 1
            /\ dlArt'.last = [fin |-> "failure", exec |-> "closed", det |-> "err_download"]
       /\ (dlpc' = "loop" /\ dlpc # "loop") => dlpc \in {"start", "resume_check"}
      ]_vars

\* the second attempt, after a resumable error left half of the file
C11_Witness ==
    /\ dlpc = "loop"
    /\ attempt.slept = 500
    /\ file.exists /\ Len(file.data) = 1

\* C11 as stated: with resume_downloads set, a resumable error is always
\* followed by another attempt.
C11_AlwaysResumes ==
    [][(dlpc = "resume_check" /\ dlpc' # dlpc) => dlpc' = "loop"]_vars

(* C12, as the code has it: every download attempt starts at the offset      *)
(* g_stat() gives, the size of the destination file if it exists and 0 if    *)
(* not, whether resume_downloads is set or not; from an offset above 0 the   *)
(* file is appended to, and it is truncated only from offset 0.              *)
C12_ResumeOffset ==
    [][(dlpc = "loop" /\ dlpc' # dlpc) =>
         /\ attempt'.resume_from = IF file.exists THEN Len(file.data) ELSE 0
         /\ \/ file' = file
            \/ /\ file'.exists
               /\ Len(file'.data) >= attempt'.resume_from
               /\ SubSeq(file'.data, 1, attempt'.resume_from)
                    = SubSeq(file.data, 1, attempt'.resume_from)
               /\ \A k \in 1..Len(file'.data) : file'.data[k] = dlArt.id
      ]_vars

\* with resume_downloads off the worker finds the file of the same deployment,
\* downloaded earlier without installing, and starts at its end
C12_Witness ==
    /\ ~cfg.resume
    /\ dlpc = "complete"
    /\ attempt.resume_from = ArtLen
    /\ dlArt.do_install

\* C12 as stated: with resume_downloads off every attempt starts at offset 0.
C12_NoResumeFromStart ==
    [][(dlpc = "loop" /\ dlpc' # dlpc /\ ~cfg.resume) => attempt'.resume_from = 0]_vars

\* a step of process_deployment() that has read the deployment resource
DeploymentStep == pollpc = "pd_lock" /\ pollpc' # pollpc /\ resp'.get

\* the resource gets as far as the chunks: download and update are given,
\* download is not skip, the deployment is not "still waiting" (i is the
\* stored action id), and the id is given
ReachesChunks(r, i) ==
    /\ r.download = "attempt"
    /\ r.update \in {"attempt", "skip"}
    /\ ~(r.update = "skip" /\ r.id = i)
    /\ r.id # 0

\* process_deployment() has gone through proc_error for resource r: one
\* feedback, failure/closed, with the id of r, and nothing started
ProcErrorStep(r) ==
    /\ pArt'.id = r.id
    /\ pArt'.n = 1 /\ pArt'.term = 1 /\ ~pArt'.badid
    /\ pArt'.last.fin = "failure" /\ pArt'.last.exec = "closed"
    /\ id' = r.id
    /\ state' = ACTION_STATE_NONE
    /\ ~file'.exists
    /\ mutex' = "free"
    /\ pollpc' \in {"pc_lock", "sleeptime"}
    /\ res' = FALSE
    /\ UNCHANGED <<dlVars, instVars>>

(* C13: if the deployment resource (which gets as far as the chunks) has     *)
(* more than one chunk, or more than one artifact in its chunk,              *)
(* process_deployment sends exactly one feedback, failure/closed with the    *)
(* multi-chunks or multi-artifacts error, for the deployment id, starts no   *)
(* worker and no install, removes the bundle file and returns FALSE with     *)
(* state NONE.                                                               *)
C13_MultiChunkRejected ==
    [][(/\ DeploymentStep
        /\ ReachesChunks(resp', id)
        /\ (resp'.chunks > 1 \/ resp'.artifacts > 1)) =>
         /\ ProcErrorStep(resp')
         /\ pArt'.last.det = IF resp'.chunks > 1
                             THEN "RHU_HAWKBIT_CLIENT_ERROR_MULTI_CHUNKS"
                             ELSE "RHU_HAWKBIT_CLIENT_ERROR_MULTI_ARTIFACTS"
      ]_vars

\* a deployment with two chunks was refused
C13_Witness ==
    /\ resp.get /\ resp.chunks = 2
    /\ pArt.term = 1
    /\ state = ACTION_STATE_NONE

\* the resource passes every check before the disk space check
ReachesSpaceCheck(r, i) ==
    /\ ReachesChunks(r, i)
    /\ r.chunks = 1 /\ r.artifacts = 1 /\ r.fields /\ r.size > 0

(* C14: in staged mode, of the deployments that reach the disk space check   *)
(* (and whose free space statvfs() can tell), process_deployment goes on to  *)
(* spawn the worker if and only if the free space is at least the artifact   *)
(* size; with less it sends failure/closed with G_FILE_ERROR_NOSPC, spawns   *)
(* no worker and returns with state NONE.  A worker is spawned only there.   *)
C14_FreeSpace ==
    [][/\ (/\ DeploymentStep
           /\ ~cfg.stream
           /\ ReachesSpaceCheck(resp', id)
           /\ resp'.statvfs) =>
            IF resp'.free >= resp'.size
            THEN /\ pollpc' = "pd_spawn"
                 /\ state' = ACTION_STATE_PROCESSING
                 /\ pArt'.id = resp'.id /\ pArt'.n = 0
            ELSE /\ ProcErrorStep(resp')
                 /\ pArt'.last.det = "G_FILE_ERROR_NOSPC"
       /\ (pollpc = "pd_spawn" /\ pollpc' # pollpc) => dlpc' = "start" /\ dlArt' = pArt
       /\ (dlpc' = "start" /\ dlpc # "start") => pollpc = "pd_spawn"
      ]_vars

\* a worker was spawned with the free space equal to the artifact size
C14_Witness ==
    /\ pollpc = "pd_spawn"
    /\ resp.statvfs /\ resp.size = MaxSize /\ resp.free = resp.size

(* C15: if the deployment resource has download = skip, process_deployment   *)
(* returns TRUE with state NONE; it sends no feedback, starts no worker and  *)
(* no install, and leaves the stored id and the bundle file as they are.     *)
C15_DownloadSkip ==
    [][(DeploymentStep /\ resp'.download = "skip") =>
         /\ state' = ACTION_STATE_NONE
         /\ cfg.once => res'
         /\ mutex' = "free"
         /\ pollpc' \in {"pc_lock", "sleeptime"}
         /\ UNCHANGED <<id, file, pArt, dlVars, instVars>>
      ]_vars

\* download = skip was answered while the bundle of an earlier deployment is
\* kept
C15_Witness ==
    /\ resp.get /\ resp.download = "skip"
    /\ file.exists /\ id # 0
    /\ state = ACTION_STATE_NONE

(* C16: if the deployment resource has update = skip and the stored action   *)
(* id, process_deployment returns TRUE with state NONE; it starts no worker  *)
(* and no install, sends no feedback and leaves the id and the bundle file   *)
(* as they are.                                                              *)
C16_StillWaiting ==
    [][(/\ DeploymentStep
        /\ resp'.download = "attempt"
        /\ resp'.update = "skip"
        /\ resp'.id = id) =>
         /\ state' = ACTION_STATE_NONE
         /\ cfg.once => res'
         /\ mutex' = "free"
         /\ pollpc' \in {"pc_lock", "sleeptime"}
         /\ UNCHANGED <<id, file, pArt, dlVars, instVars>>
      ]_vars

\* the deployment whose bundle is kept was offered again with update = skip
C16_Witness ==
    /\ resp.get /\ resp.download = "attempt" /\ resp.update = "skip"
    /\ resp.id = id /\ id # 0
    /\ file.exists /\ Len(file.data) = ArtLen
    /\ state = ACTION_STATE_NONE

\* the resource passes every check before the stream / disk space branch
\* (the same checks in both modes)
ReachesStream(r, i) == ReachesSpaceCheck(r, i)

C18_RebootOnlyAfterInstall ==
    [][(halted' = "rebooted" /\ halted # "rebooted") =>
         /\ instpc = "notify"
         /\ cfg.reboot
         /\ ictx.status_result = 0
         /\ ictx'.art.term = ictx.art.term + 1
         /\ ictx'.art.last.fin = "success" /\ ictx'.art.last.exec = "closed"
         /\ ictx'.art.end = "installed"
         /\ ictx'.art.do_install
         /\ ~file'.exists
         /\ state' = ACTION_STATE_SUCCESS
      ]_vars

\* the device rebooted after a successful install
C18_Witness ==
    /\ halted = "rebooted"
    /\ cfg.reboot
    /\ ictx.status_result = 0
    /\ ictx.art.last.exec = "closed"
    /\ state = ACTION_STATE_SUCCESS

\* a step of on_installer_completed() that stores a new exit value
CompletedStep ==
    /\ instpc = "loop"
    /\ ictx'.status_result # ictx.status_result
    /\ ictx'.status_result \in {-1, 0, 1}

(* C19: the signal completed(exit) stores exit as the status of the install; *)
(* it ends the install driver's event loop if and only if exit >= 0 (after a *)
(* negative exit the loop keeps running), and the install that ended is      *)
(* reported as successful if and only if the status is 0.                    *)
C19_Completed ==
    [][/\ CompletedStep =>
            /\ instpc' \in {"notify", "loop"}
            /\ instpc' = "notify" <=> ictx'.status_result >= 0
       /\ (instpc = "notify" /\ instpc' # instpc) =>
            /\ ictx'.status_result = ictx.status_result
            /\ ictx'.art.last.exec = "closed"
            /\ ictx'.art.last.fin = "success" <=> ictx.status_result = 0
            /\ state' = ACTION_STATE_SUCCESS <=> ictx.status_result = 0
      ]_vars

\* a negative exit value was stored and the event loop is still running
C19_Witness ==
    /\ instpc = "loop"
    /\ ictx.status_result = -1
    /\ state = ACTION_STATE_INSTALLING

(* C19 as stated: completed(exit) ends the event loop for every exit value.  *)
C19_AlwaysTerminates ==
    [][CompletedStep => instpc' = "notify"]_vars

\* the steps of hawkbit_pull_cb that can fail
FailedSteps ==
    {"base_failed", "identify_failed", "deployment_failed", "cancel_failed",
     "install_failed"}

\* how a worker ends that did not succeed: canceled, download or checksum
\* error, failed install
FailedEnds == {"canceled", "error", "failed"}

\* every step of the run_once tick succeeded
AllSucceeded == tick \cap FailedSteps = {} /\ dlArt.end \notin FailedEnds

(* C20: in run_once mode the process has, when it exits, polled the base     *)
(* resource once and waited for the worker and the install it started, and   *)
(* exits with 0 (res TRUE) if and only if every step of the tick succeeded:  *)
(* base poll, identify, deployment processing, cancel processing, download   *)
(* and install.                                                              *)
C20_ExitCode ==
    (cfg.once /\ halted = "exited") =>
        /\ "base" \in tick
        /\ dlpc \in {"none", "done"}
        /\ instpc \in {"none", "done"}
        /\ res <=> AllSucceeded

\* run_once exits with 0 although identify() failed: the skipped deployment
\* processed after it overwrote the result
C20_Witness ==
    /\ cfg.once /\ halted = "exited"
    /\ "identify_failed" \in tick
    /\ "deployment" \in tick /\ "deployment_failed" \notin tick
    /\ res


C22_TimerPolls ==
    [][(pollpc = "timer" /\ cdata.on /\ cdata' # cdata) =>
        LET n == cdata.last_run_sec + 1
            i == cdata.hawkbit_interval_check_sec
        IN /\ (pollpc' = "idle") <=> (n >= i)
           /\ pollpc' = "idle" =>
                /\ cdata'.last_run_sec = 0
                /\ cdata.polled => cdata.gap + 1 = (IF i > 1 THEN i ELSE 1)
           /\ pollpc' # "idle" => pollpc' = "timer" /\ cdata'.last_run_sec = n
           /\ ~cdata.polled => pollpc' = "idle" /\ n = cfg.retry_wait + 1]_vars

\* the timer goes on to a GET five calls after the GET before
C22_Witness ==
    /\ cdata.on /\ cdata.polled /\ pollpc = "idle"
    /\ cdata.hawkbit_interval_check_sec = 5 /\ cdata.gap = 5 /\ cdata.last_run_sec = 0

(* C24: when the GET of the base resource fails, the interval becomes        *)
(* retry_wait, the action state and id are as before, and the callback goes  *)
(* straight to its end: no identify, deployment or cancel processing in that *)
(* call.                                                                     *)
C24_PollFailure ==
    [][/\ (pollpc = "idle" /\ pollpc' = "out") =>
            /\ cdata.on => cdata'.hawkbit_interval_check_sec = cfg.retry_wait
            /\ state' = state /\ id' = id
            /\ tick' \subseteq {"base", "base_failed"}
            /\ ~cancelLink' /\ pArt' = pArt /\ canFb' = canFb /\ dlpc' = dlpc
       /\ pollpc = "out" =>
            /\ pollpc' \in {"out", "timer", "idle", "exited"}
            /\ tick' \subseteq {"base", "base_failed"}
            /\ cdata'.hawkbit_interval_check_sec = cdata.hawkbit_interval_check_sec]_vars

\* a failed poll while the interval was the 5 s of an active action
C24_Witness ==
    /\ cdata.on /\ pollpc = "out" /\ cfg.retry_wait = 3
    /\ cdata.hawkbit_interval_check_sec = 3
    /\ state = ACTION_STATE_DOWNLOADING

(* C23: after a successful poll the interval is 5 whenever the state is      *)
(* PROCESSING, DOWNLOADING, INSTALLING or CANCEL_REQUESTED when the sleep    *)
(* time is read; otherwise the seconds of $.config.polling.sleep, or         *)
(* retry_wait if that is absent or no time.                                  *)
C23_SleepTime ==
    [][(cdata.on /\ pollpc = "sleeptime" /\ pollpc' = "timer") =>
        cdata'.hawkbit_interval_check_sec =
            IF state \in {4, 5, 6, 7} THEN 5
            ELSE IF cdata.sleep.kind = "time"
            THEN cdata.sleep.s + 60 * cdata.sleep.m + 3600 * cdata.sleep.h
            ELSE cfg.retry_wait]_vars

\* the sleep time was read while installing; the interval is that of the
\* response, 61 s
C23_Witness ==
    /\ cdata.on /\ pollpc = "timer" /\ state = ACTION_STATE_INSTALLING
    /\ cdata.hawkbit_interval_check_sec = 61 /\ cdata.last_run_sec = 0

(* C25: every change of the action state is a step forward in the order      *)
(* NONE, PROCESSING, DOWNLOADING, INSTALLING, then SUCCESS or ERROR, or a    *)
(* step to CANCEL_REQUESTED from PROCESSING or DOWNLOADING, or to CANCELED   *)
(* from these or from CANCEL_REQUESTED, or the reset of an action that has   *)
(* ended (alone, or with the start of the next action); INSTALLING is left   *)
(* only for SUCCESS or ERROR, and DOWNLOADING is not left for NONE while the *)
(* download worker goes on running.  process_deployment sets PROCESSING and  *)
(* moves on under the mutex: its step is read as two changes.                *)
C25_StateOrder ==
    [][state' # state =>
        LET rank == [s \in 0..7 |-> CASE s = 0 -> 0 [] s = 4 -> 1 [] s = 5 -> 2
                                      [] s = 6 -> 3 [] s \in {2, 3} -> 4
                                      [] OTHER -> -1]
            Ok(s, t) ==
                /\ \/ rank[s] >= 0 /\ rank[t] > rank[s]
                   \/ s \in {4, 5} /\ t = 7
                   \/ s \in {4, 5, 7} /\ t = 1
                   \/ s \in {1, 2, 3} /\ t \in {0, 4}
                   \/ s = 4 /\ t = 0
                   \/ s = 5 /\ t = 0 /\ dlpc' \in {"none", "exit", "done"}
                /\ s = 6 => t \in {2, 3}
        IN \/ Ok(state, state')
           \/ pollpc = "pd_lock" /\ Ok(state, 4) /\ Ok(4, state')]_vars

\* a cancel for another action has reset the state while the install thread
\* is running
C25_Witness ==
    /\ foreign /\ state = ACTION_STATE_NONE /\ swst = ACTION_STATE_NONE
    /\ instpc \in {"start", "loop", "drain"}

(* C26: a download worker is started only by process_deployment and only    *)
(* when there is no worker or the previous one has returned; an install      *)
(* thread is started only by rauc_install and only when there is no install  *)
(* thread or the previous one has returned.                                  *)
C26_OneThread ==
    [][/\ (pollpc = "pd_spawn" /\ pollpc' # "pd_spawn") =>
            dlpc \in {"none", "done"} /\ dlpc' = "start"
       /\ (dlpc' = "start" /\ dlpc # "start") => pollpc = "pd_spawn"
       /\ ((pollpc = "pd_stream_cb" /\ pollpc' # "pd_stream_cb")
            \/ (dlpc = "install" /\ dlpc' # "install")) =>
            (instpc \in {"none", "done"} /\ instpc' = "start")
       /\ (instpc' = "start" /\ instpc # "start") =>
            pollpc = "pd_stream_cb" \/ dlpc = "install"]_vars

\* process_deployment is about to start a worker while the previous one is
\* still downloading: it waits in the join
C26_Witness ==
    /\ pollpc = "pd_spawn" /\ dlpc = "loop" /\ nacc = 2 /\ halted = "no"

(* C27 (original): every network or bus call is made with the action mutex  *)
(* released.                                                                 *)
C27_NoMutexDuringIo ==
    \A c \in io : c.mutex = "free"

(* C27: the GET of the base resource, the identify PUT, the GET of the       *)
(* cancel resource, the bundle download and the InstallBundle call are made  *)
(* with the action mutex released; the GET of the deployment resource and    *)
(* every feedback POST are made by a thread that holds the action mutex.     *)
C27_MutexDuringIo ==
    \A c \in io :
        /\ c.op \in {"base_get", "identify", "cancel_get", "download", "install_bundle"}
              => c.mutex = "free"
        /\ c.op \in {"deployment_get", "feedback", "cancel_feedback"}
              => c.mutex = c.by
        /\ c.op \in {"base_get", "identify", "cancel_get", "download", "install_bundle",
                     "deployment_get", "feedback", "cancel_feedback"}

\* the worker sends its feedback while it holds the mutex, in the same poll
\* the deployment resource was read under the mutex
C27_Witness ==
    /\ [op |-> "feedback", by |-> "worker", mutex |-> "worker"] \in io
    /\ state = ACTION_STATE_DOWNLOADING

\* The place of a feedback in the order of issue: "Download complete", "File
\* checksum OK.", install progress, then the feedback that closes the action.
FeedbackRank(l) ==
    IF l.exec = "closed" THEN 4
    ELSE IF l.det = "dlcomplete" THEN 1
    ELSE IF l.det = "cksum" THEN 2
    ELSE IF l.det = "progress" THEN 3
    ELSE 0

\* b is the history of deployment a after one more feedback: it was sent for
\* the deployment's id, not after the closing feedback, and later in the
\* order than the one before (progress lines follow each other).
FeedbackFollows(a, b) ==
    (b.n = a.n + 1 /\ <<b.id, b.sha1, b.do_install, b.mw, b.handed>>
                      = <<a.id, a.sha1, a.do_install, a.mw, a.handed>>) =>
        /\ ~b.badid
        /\ a.term = 0
        /\ \/ FeedbackRank(b.last) > FeedbackRank(a.last)
           \/ FeedbackRank(b.last) = 3 /\ FeedbackRank(a.last) = 3

(* C28: the feedbacks of one action are sent for its id in the order of      *)
(* issue - "Download complete", "File checksum OK.", install progress lines, *)
(* the closing feedback -, nothing after the closing feedback, and one at a  *)
(* time: each by the thread that holds the action mutex.                     *)
C28_FeedbackOrder ==
    [][/\ FeedbackFollows(pArt, pArt')
       /\ FeedbackFollows(dlArt, dlArt')
       /\ FeedbackFollows(ictx.art, ictx'.art)
       /\ \A c, e \in io' :
            (c.op = "feedback" /\ e.op = "feedback") => (c = e /\ c.mutex = c.by)]_vars

\* the install of deployment 1 has sent its closing feedback under id 2 while
\* the worker of deployment 2 has sent "Download complete" and goes on to
\* "File checksum OK."
C28_Witness ==
    /\ id = 2 /\ nacc = 2
    /\ ictx.art.id = 1 /\ ictx.art.badid /\ ictx.art.term = 1
    /\ dlArt.id = 2 /\ dlArt.n = 1 /\ dlpc = "post" /\ ~dlArt.badid

(* C29: the messages handed to the progress callback are, in the same order, *)
(* the messages the install thread has queued and no longer holds: none is   *)
(* lost, duplicated or overtaken, and none is left once the thread is done.  *)
C29_QueueFifo ==
    /\ ictx.pushed = ictx.popped \o ictx.queue
    /\ ictx.pushed = [k \in 1..Len(ictx.pushed) |-> k]
    /\ instpc \in {"notify", "exit", "done"} => ictx.queue = <<>>

\* three messages were queued and handed on in their order
C29_Witness ==
    /\ ictx.popped = <<1, 2, 3>> /\ ictx.queue = <<>> /\ instpc = "exit"
    /\ ictx.art.n = 6

(* C30: in state ERROR and in state CANCELED there is no bundle file; the    *)
(* install that ends in SUCCESS leaves none and none appears while the state *)
(* stays SUCCESS; an action reaches SUCCESS with the file in place only as a *)
(* download-only deployment.                                                 *)
C30_BundleRemoved ==
    [][/\ state' \in {1, 2} => ~file'.exists
       /\ (instpc = "notify" /\ instpc' = "exit" /\ state' = 3) => ~file'.exists
       /\ (state = 3 /\ state' = 3 /\ ~file.exists) => ~file'.exists
       /\ (state' = 3 /\ state # 3 /\ file'.exists) =>
             (dlpc = "post" /\ ~dlArt.do_install)]_vars

\* the install of the first deployment has ended in ERROR and removed the
\* file; the worker of a later download has written it again
C30_Witness ==
    /\ state = ACTION_STATE_ERROR /\ file.exists /\ foreign
    /\ dlpc = "complete" /\ instpc \in {"exit", "done"}

\* a step by which an install ends otherwise than by completed(0): the start
\* fails, the executor disappears, or completed stores a value other than 0
InstallEnds ==
    \/ instpc = "start" /\ instpc' \notin {"start", "loop"}
    \/ /\ instpc = "loop" /\ ictx'.status_result # 0
       /\ \/ ictx'.status_result # ictx.status_result
          \/ instpc' \notin {"loop", "drain"}

\* install_complete_cb() has run for a failed install: state ERROR, one more
\* feedback for the deployment, failure/closed, the only closing one
FailureReported ==
    /\ instpc' = "exit"
    /\ state' = ACTION_STATE_ERROR
    /\ ictx'.art.n = ictx.art.n + 1
    /\ ictx'.art.term = 1
    /\ ictx'.art.last.fin = "failure" /\ ictx'.art.last.exec = "closed"
    /\ ictx'.art.end = "failed"

(* C31: when the proxy cannot be created, the InstallBundle call is          *)
(* rejected, the executor disappears (status 2) or completed carries a       *)
(* positive value, the install thread goes on to the completion callback,    *)
(* which runs once for the install: it sets ERROR and sends the one          *)
(* failure/closed feedback of the deployment.  After completed with a        *)
(* negative value the event loop keeps running and the callback is not       *)
(* called for it.                                                            *)
C31_InstallFailure ==
    [][/\ InstallEnds =>
            /\ instpc' = "notify" <=> ictx'.status_result > 0
            /\ ictx'.status_result < 0 => instpc' = "loop" /\ state' = state
       /\ instpc = "start" => instpc' \in {"start", "loop", "notify"}
       /\ (instpc' = "notify" /\ instpc # "notify") =>
            /\ instpc \in {"start", "loop"}
            /\ ictx'.status_result >= 0
            /\ ictx'.art.term = 0 /\ ictx'.art.end = "none"
       /\ (instpc = "notify" /\ instpc' # instpc /\ ictx.status_result # 0) =>
            FailureReported
       /\ instpc = "notify" => instpc' \in {"notify", "exit"}
       /\ instpc = "exit" => instpc' \in {"exit", "done"}]_vars

\* the executor's completed(1) has ended the install: the callback has set
\* ERROR and sent failure/closed
C31_Witness ==
    /\ instpc = "exit" /\ ictx.status_result = 1
    /\ state = ACTION_STATE_ERROR
    /\ ictx.art.end = "failed" /\ ictx.art.term = 1 /\ ictx.art.last.fin = "failure"

(* C31 as stated: every end of an install other than completed(0), a        *)
(* completed with any non-zero value included, leads to the completion       *)
(* callback, which reports the failure.                                      *)
C31_AlwaysReported ==
    [][/\ InstallEnds => instpc' = "notify"
       /\ (instpc = "notify" /\ instpc' # instpc /\ ictx.status_result # 0) =>
            FailureReported]_vars

\* every byte of the file was served for deployment i
FetchedFor(f, i) == \A k \in 1..Len(f.data) : f.data[k] = i

(* C32: when process_deployment accepts a deployment whose id is not the     *)
(* stored one, no bundle file is left when it goes on to the download (or to *)
(* the streaming install); and a download attempt that resumes at an offset  *)
(* above 0 resumes a file whose bytes were all served for the id of the      *)
(* worker's own deployment.                                                  *)
C32_NoForeignBytes ==
    [][/\ (pollpc = "pd_lock" /\ pollpc' \in {"pd_spawn", "pd_stream_cb"} /\ id' # id) =>
            ~file'.exists
       /\ (dlpc = "loop" /\ dlpc' # "loop" /\ attempt'.resume_from > 0) =>
            /\ file.exists /\ attempt'.resume_from = Len(file.data)
            /\ FetchedFor(file, dlArt.id)]_vars

\* the worker of deployment 2 has resumed, at an offset above 0, a file whose
\* bytes were served for deployment 1, while the stored id was 2 all along
C32_Witness ==
    /\ dlpc = "complete" /\ dlArt.id = 2 /\ id = 2
    /\ attempt.resume_from > 0 /\ file.exists
    /\ \E k \in 1..attempt.resume_from : file.data[k] = 1
    /\ foreign

\* the worker's deployment is download-only with a maintenance window that is
\* none of null, available and unavailable
OtherWindow(a) == ~a.do_install /\ a.mw \notin {"null", "available", "unavailable"}

(* C33: with do_install = false and a maintenance window that is none of     *)
(* null, available and unavailable, the worker sends "File checksum OK." as  *)
(* a progress feedback and leaves state and file as they are; at the last    *)
(* chance to cancel it then sets NONE (unless a cancel was requested), keeps *)
(* the file and returns without any closing feedback.                        *)
C33_OtherWindow ==
    [][/\ (dlpc = "post" /\ dlpc' # "post" /\ OtherWindow(dlArt)) =>
            /\ dlpc' = "last"
            /\ state' = state /\ file' = file
            /\ dlArt'.n = dlArt.n + 1 /\ dlArt'.term = 0
            /\ dlArt'.last = [fin |-> "none", exec |-> "proceeding", det |-> "cksum"]
       /\ (dlpc = "last" /\ dlpc' # "last" /\ OtherWindow(dlArt)
            /\ state # ACTION_STATE_CANCEL_REQUESTED) =>
            /\ dlpc' = "exit"
            /\ state' = ACTION_STATE_NONE /\ file' = file
            /\ dlArt'.n = dlArt.n /\ dlArt'.term = 0 /\ dlArt'.end = "waiting"
            /\ instpc' = instpc]_vars

\* the download-only deployment with another maintenance window has ended in
\* NONE with its bundle in place and no closing feedback
C33_Witness ==
    /\ dlpc = "exit" /\ OtherWindow(dlArt) /\ dlArt.end = "waiting"
    /\ state = ACTION_STATE_NONE /\ file.exists /\ dlArt.term = 0
    /\ dlArt.last.det = "cksum" /\ ~foreign

(* C33 as stated: with do_install = false and such a maintenance window the *)
(* worker sets SUCCESS and sends success/downloaded.                         *)
C33_MarksSuccess ==
    [][(dlpc = "post" /\ dlpc' # "post" /\ OtherWindow(dlArt)) =>
            /\ state' = ACTION_STATE_SUCCESS
            /\ dlArt'.last.fin = "success" /\ dlArt'.last.exec = "downloaded"]_vars

(* C34: every read and every write of active_action->state and               *)
(* active_action->id, by the poll thread, the download worker and the        *)
(* install thread, is made by a thread that holds the action mutex, which it *)
(* found free; and no step changes the state or the id without such a write. *)
C34_AccessUnderMutex ==
    [][/\ \A a \in acc' :
            /\ a.field \in {"state", "id"} /\ a.kind \in {"read", "write"}
            /\ a.by \in {"poll", "worker", "install"}
            /\ a.mutex = a.by
            /\ mutex = "free"
       /\ state' # state =>
            \E a \in acc' : a.field = "state" /\ a.kind = "write"
       /\ id' # id =>
            \E a \in acc' : a.field = "id" /\ a.kind = "write"]_vars

\* the install thread has written ERROR while it held the mutex, and the poll
\* thread is on its way to read the state for the sleep time
C34_Witness ==
    /\ [field |-> "state", kind |-> "write", by |-> "install", mutex |-> "install"] \in acc
    /\ [field |-> "id", kind |-> "read", by |-> "install", mutex |-> "install"] \in acc
    /\ state = ACTION_STATE_ERROR /\ pollpc = "sleeptime"

(* C35: a cancel whose stopId is not the id of the active action is          *)
(* acknowledged with success/closed and leaves the state and the id of the   *)
(* active action as they are, whatever the state.                            *)
C35_ForeignCancel ==
    [][(pollpc = "pc_lock" /\ stop_id' # 0 /\ stop_id' # id) =>
            /\ canFb' = Append(canFb, Closed(stop_id'))
            /\ state' = state
            /\ id' = id]_vars

\* the cancel of action 2 was acknowledged with success/closed while the
\* worker of action 1 is downloading: the state is NONE
C35_Witness ==
    /\ pollpc = "sleeptime" /\ stop_id = 2 /\ id = 1
    /\ canFb = <<Closed(2)>>
    /\ state = ACTION_STATE_NONE /\ crFrom = -1
    /\ dlpc = "loop" /\ dlArt.id = 1 /\ foreign

\* hawkbit_pull_cb is inside its deployment branch
InDeployment(pc) == pc \in {"pd_lock", "pd_spawn", "pd_stream_cb", "pd_stream_join",
                            "pd_stream_ret"}

EndedStates == {ACTION_STATE_CANCELED, ACTION_STATE_ERROR, ACTION_STATE_SUCCESS}

(* C37: the steps that end an action - the worker's leave through cancel,    *)
(* report_err or the download-only branch, and install_complete_cb - leave a *)
(* state below PROCESSING; and process_deployment, entered in CANCELED,      *)
(* ERROR or SUCCESS (or NONE), never answers already-in-progress: it sets    *)
(* PROCESSING, reads the deployment resource, and a deployment that passes   *)
(* its checks goes on to the worker in PROCESSING (or to the streaming       *)
(* install).  Already-in-progress is answered only in a state from           *)
(* PROCESSING on.                                                            *)
C37_AcceptAfterEnd ==
    [][/\ (instpc = "notify" /\ instpc' = "exit") =>
            state' \in {ACTION_STATE_SUCCESS, ACTION_STATE_ERROR}
       /\ (dlpc \in {"start", "resume_check", "post", "last", "err_download",
                     "err_checksum"} /\ dlpc' = "exit") =>
            state' \in EndedStates \cup {ACTION_STATE_NONE}
       /\ (pollpc = "pd_lock" /\ pollpc' # "pd_lock") =>
            /\ state \in EndedStates \cup {ACTION_STATE_NONE} =>
                 /\ "busy" \notin tick' /\ "deployment" \in tick'
                 /\ nacc' = nacc + 1
                 /\ pollpc' = "pd_spawn" => state' = ACTION_STATE_PROCESSING
                 /\ pollpc' = "pd_stream_cb" => state' = ACTION_STATE_INSTALLING
            /\ "busy" \in tick' =>
                 (state >= ACTION_STATE_PROCESSING /\ state' = state /\ nacc' = nacc)]_vars

\* the download of the first deployment ended in ERROR; the second
\* deployment was accepted and is about to get its worker
C37_Witness ==
    /\ pollpc = "pd_spawn" /\ state = ACTION_STATE_PROCESSING /\ nacc = 2
    /\ dlpc = "exit" /\ dlArt.end = "error" /\ dlArt.term = 1
    /\ "busy" \notin tick /\ ~foreign

\* the download worker has returned, or returns without taking the action
\* mutex again: it is past its last locked section, or it only has to start
\* the install thread and no earlier install thread is in its way
ReturnsUnlocked ==
    \/ dlpc \in {"none", "exit", "done"}
    \/ dlpc = "install" /\ ~cfg.once /\ instpc \in {"none", "exit", "done"}

(* C38: whenever the poll thread is at the g_thread_join of process_deployment *)
(* (holding the action mutex), the previous download worker has returned or  *)
(* returns without taking the action mutex.                                  *)
C38_JoinReturns ==
    pollpc = "pd_spawn" => (mutex = "poll" /\ ReturnsUnlocked)

\* the poll thread holds the mutex and joins a worker that has finished its
\* download and now waits for the mutex to report it
C38_Witness ==
    /\ pollpc = "pd_spawn" /\ mutex = "poll" /\ halted = "no"
    /\ dlpc = "complete" /\ dlArt.id = 1 /\ id = 2 /\ foreign

(* C39: the feedback switch of process_cancel never reads PROCESSING,        *)
(* DOWNLOADING or CANCEL_REQUESTED: its default branch                       *)
(* (g_assert_not_reached) is not taken.                                      *)
C39_SwitchDefault ==
    /\ swst \in {-1, ACTION_STATE_NONE, ACTION_STATE_CANCELED, ACTION_STATE_SUCCESS,
                 ACTION_STATE_ERROR, ACTION_STATE_INSTALLING}
    /\ pollpc \in {"pc_lock", "pc_wait"} => halted # "aborted"

\* process_cancel woke up from its wait with the state DOWNLOADING and took
\* the default branch: the process is aborted
C39_Witness ==
    /\ halted = "aborted" /\ pollpc = "pc_wait"
    /\ swst = ACTION_STATE_DOWNLOADING /\ state = ACTION_STATE_DOWNLOADING
    /\ stop_id = id /\ crFrom = ACTION_STATE_PROCESSING /\ foreign

\* install_context_free(context) is called in this step: by the install
\* thread at its end, or by the caller that waited for it
ContextFreed == ictx # NoCtx /\ ictx' = NoCtx

(* C40: whenever an install context is freed - by the install thread at its  *)
(* end, or in wait mode by the caller after the join - its status is >= 0    *)
(* and its queue of progress messages is empty; no install thread ends with  *)
(* a context that would fail the assertions, and the process is never        *)
(* aborted by them.                                                          *)
C40_ContextFree ==
    [][/\ ContextFreed =>
            /\ ictx.status_result >= 0 /\ ictx.queue = <<>>
            /\ instpc' = "done"
            /\ instpc = IF ictx.keep THEN "done" ELSE "exit"
       /\ instpc \in {"notify", "exit", "done"} =>
            (ictx = NoCtx \/ (ictx.status_result >= 0 /\ ictx.queue = <<>>))
       /\ (halted' = "aborted" /\ halted # "aborted") =>
            (pollpc \in {"pc_lock", "pc_wait"} /\ instpc' = instpc /\ ictx' = ictx)]_vars

\* the install thread is about to free the context of an install that first
\* got completed(-1) and then lost the executor
C40_Witness ==
    /\ instpc = "exit" /\ ~ictx.keep /\ ictx.status_result = 2
    /\ ictx.art.end = "failed" /\ ictx.left = 0 /\ ictx.popped # <<>>
    /\ ictx.queue = <<>> /\ halted = "no"
====
